---------------------------- MODULE Spec2Model ----------------------------
(***************************************************************************)
(* A model of Envelope (src/src/Envelope.cpp): the control points of a     *)
(* piecewise-linear curve, its mutators, its drag gesture and its region   *)
(* operations.                                                             *)
(*                                                                         *)
(* Numbers.  The code computes in double; the model computes in exact      *)
(* rational arithmetic.  A number is a pair <<n, d>> with d > 0 and        *)
(* gcd(n, d) = 1, so that equal numbers are equal pairs.  Rounding of      *)
(* double is not modelled.  Only linear interpolation (mDB = false) is     *)
(* modelled.                                                               *)
(*                                                                         *)
(* Indices.  Point indices are those of the code (from 0); At(env, i) is   *)
(* mEnv[i].                                                                *)
(***************************************************************************)
EXTENDS Integers, Sequences, FiniteSets, TLC

(***************************************************************************)
(* Rational arithmetic (the model's double).                               *)
(***************************************************************************)
RECURSIVE GCD(_, _)
GCD(a, b) == IF b = 0 THEN a ELSE GCD(b, a % b)

IAbs(n) == IF n < 0 THEN -n ELSE n

RNorm(n, d) ==
    LET s == IF d < 0 THEN -1 ELSE 1
        g == GCD(IAbs(n), IAbs(d))
    IN  <<(s * n) \div g, (s * d) \div g>>

R(n) == <<n, 1>>

RAdd(a, b) == RNorm(a[1] * b[2] + b[1] * a[2], a[2] * b[2])
RSub(a, b) == RNorm(a[1] * b[2] - b[1] * a[2], a[2] * b[2])
RMul(a, b) == RNorm(a[1] * b[1], a[2] * b[2])
RDiv(a, b) == RNorm(a[1] * b[2], a[2] * b[1])
RLt(a, b)  == a[1] * b[2] < b[1] * a[2]
RLe(a, b)  == a[1] * b[2] <= b[1] * a[2]
RMax(a, b) == IF RLt(a, b) THEN b ELSE a
RMin(a, b) == IF RLt(b, a) THEN b ELSE a
RAbs(a)    == <<IAbs(a[1]), a[2]>>

Zero == R(0)

(***************************************************************************)
(* EnvPoint and the point array.                                           *)
(***************************************************************************)
\* EnvPoint{ t, val }: the constructor takes no Envelope, it stores the pair.
EnvPoint(t, val) == [t |-> t, val |-> val]

At(env, i) == env[i + 1]
GetT(env, i) == At(env, i).t
GetVal(env, i) == At(env, i).val

\* mEnv.erase( mEnv.begin() + begin, mEnv.begin() + end ), 0 <= begin <= end <= size
EraseRange(env, begin, end) ==
    [k \in 1..(Len(env) - (end - begin)) |->
        IF k <= begin THEN env[k] ELSE env[k + (end - begin)]]

\* Delete that drops the last point whatever the index (pop_back in place of
\* erase at the index): the variant C11DeleteFrame must tell apart.
DeleteLast(env, point) == EraseRange(env, Len(env) - 1, Len(env))

\* Envelope::Delete
Delete(env, point) == EraseRange(env, point, point + 1)

\* Envelope::Insert
Insert(env, point, p) ==
    [k \in 1..(Len(env) + 1) |->
        IF k <= point THEN env[k]
        ELSE IF k = point + 1 THEN p
        ELSE env[k - 1]]

SetT(env, i, t) == [env EXCEPT ![i + 1].t = t]

\* Envelope::ClampValue
ClampValue(e, value) == RMax(e.mMinValue, RMin(e.mMaxValue, value))

\* EnvPoint::SetVal( pEnvelope, val ): clamps to the envelope's range
SetVal(e, i, val) == [e.mEnv EXCEPT ![i + 1].val = ClampValue(e, val)]


(***************************************************************************)
(* Queries.  The search hint mSearchGuess is mutable state that a const    *)
(* query updates, so every query returns the hint it leaves behind.        *)
(***************************************************************************)
\* the loop of Envelope::BinarySearchForTime
RECURSIVE BinarySearchLoop(_, _, _, _)
BinarySearchLoop(env, Lo, Hi, t) ==
    IF Hi > Lo + 1
    THEN LET mid == (Lo + Hi) \div 2
         IN  IF RLt(t, GetT(env, mid))
             THEN BinarySearchLoop(env, Lo, mid, t)
             ELSE BinarySearchLoop(env, mid, Hi, t)
    ELSE [Lo |-> Lo, Hi |-> Hi]

\* GuessHits without the test against the next point's time: the variant
\* C13BracketWhateverHint must tell apart.
GuessHitsNoUpper(env, guess, t) ==
    /\ guess >= 0
    /\ guess < Len(env)
    /\ RLe(GetT(env, guess), t)

\* the test made on mSearchGuess, before and after ++mSearchGuess
GuessHits(env, guess, t) ==
    /\ guess >= 0
    /\ guess < Len(env)
    /\ RLe(GetT(env, guess), t)
    /\ (1 + guess = Len(env) \/ RLt(t, GetT(env, 1 + guess)))

\* Envelope::BinarySearchForTime: [Lo, Hi, guess (the new mSearchGuess)]
BinarySearchForTime(env, guess, t) ==
    IF GuessHits(env, guess, t)
    THEN [Lo |-> guess, Hi |-> 1 + guess, guess |-> guess]
    ELSE IF GuessHits(env, guess + 1, t)
    THEN [Lo |-> guess + 1, Hi |-> 2 + guess, guess |-> guess + 1]
    ELSE LET r == BinarySearchLoop(env, -1, Len(env), t)
         IN  [Lo |-> r.Lo, Hi |-> r.Hi, guess |-> r.Lo]

\* the interpolation of Envelope::GetValuesRelative in the bracket s found by
\* the search: the sample v, the step per sample and the end of the bracket
Bracket(env, s, t, tstep) ==
    LET tprev == GetT(env, s.Lo)
        tn == GetT(env, s.Hi)
        vprev == GetVal(env, s.Lo)
        vnext == GetVal(env, s.Hi)
        dt == RSub(tn, tprev)
        to == RSub(t, tprev)
    IN  [tnext |-> tn,
         v |-> IF RLt(Zero, dt)
               THEN RDiv(RAdd(RMul(vprev, RSub(dt, to)), RMul(vnext, to)), dt)
               ELSE vnext,
         vstep |-> IF RLt(Zero, dt)
                   THEN RDiv(RMul(RSub(vnext, vprev), tstep), dt)
                   ELSE Zero,
         guess |-> s.guess]

\* the loop body of Envelope::GetValuesRelative, from sample b on
RECURSIVE GetValuesLoop(_, _, _, _, _, _, _, _, _)
GetValuesLoop(e, bufferLen, tstep, b, t, tnext, vstep, buffer, guess) ==
    IF b >= bufferLen THEN [buffer |-> buffer, guess |-> guess]
    ELSE IF Len(e.mEnv) <= 0
    THEN GetValuesLoop(e, bufferLen, tstep, b + 1, RAdd(t, tstep), tnext, vstep,
                       Append(buffer, e.mDefaultValue), guess)
    ELSE IF RLe(t, GetT(e.mEnv, 0))
    THEN GetValuesLoop(e, bufferLen, tstep, b + 1, RAdd(t, tstep), tnext, vstep,
                       Append(buffer, GetVal(e.mEnv, 0)), guess)
    ELSE IF RLe(GetT(e.mEnv, Len(e.mEnv) - 1), t)
    THEN GetValuesLoop(e, bufferLen, tstep, b + 1, RAdd(t, tstep), tnext, vstep,
                       Append(buffer, GetVal(e.mEnv, Len(e.mEnv) - 1)), guess)
    ELSE IF b = 0 \/ RLt(tnext, t)
    THEN LET br == Bracket(e.mEnv, BinarySearchForTime(e.mEnv, guess, t), t, tstep)
         IN  GetValuesLoop(e, bufferLen, tstep, b + 1, RAdd(t, tstep), br.tnext,
                           br.vstep, Append(buffer, br.v), br.guess)
    ELSE GetValuesLoop(e, bufferLen, tstep, b + 1, RAdd(t, tstep), tnext, vstep,
                       Append(buffer, RAdd(buffer[b], vstep)), guess)

\* Envelope::GetValuesRelative: [buffer, guess]
GetValuesRelative(e, bufferLen, t0, tstep) ==
    GetValuesLoop(e, bufferLen, tstep, 0, t0, Zero, Zero, <<>>, e.mSearchGuess)

\* Envelope::GetValues (absolute time)
GetValues(e, bufferLen, t0, tstep) ==
    GetValuesRelative(e, bufferLen, RSub(t0, e.mOffset), tstep)

\* Envelope::GetValueRelative: [v, guess]
GetValueRelative(e, t) ==
    LET r == GetValuesRelative(e, 1, t, R(1))
    IN  [v |-> r.buffer[1], guess |-> r.guess]

\* Envelope::GetValue (absolute time): [v, guess]
GetValue(e, t) ==
    LET r == GetValues(e, 1, t, R(1))
    IN  [v |-> r.buffer[1], guess |-> r.guess]

\* PointsAfterBracket counting from lo instead of hi: the variant
\* C15PointsAfter must tell apart.
PointsAfterLo(env, s) == [v |-> Len(env) - s.Lo, guess |-> s.guess]

\* Envelope::NumberOfPointsAfter, with s the bracket found: [v, guess]
PointsAfterBracket(env, s) == [v |-> Len(env) - s.Hi, guess |-> s.guess]

\* Envelope::NumberOfPointsAfter (relative time): [v, guess]
NumberOfPointsAfter(e, t) ==
    PointsAfterBracket(e.mEnv, BinarySearchForTime(e.mEnv, e.mSearchGuess, t))

\* Envelope::NextPointAfter, with s the bracket found: [v, guess]
NextPointBracket(env, s, t) ==
    [v |-> IF s.Hi >= Len(env) THEN t ELSE GetT(env, s.Hi), guess |-> s.guess]

\* Envelope::NextPointAfter (relative time): [v, guess]
NextPointAfter(e, t) ==
    NextPointBracket(e.mEnv, BinarySearchForTime(e.mEnv, e.mSearchGuess, t), t)

\* std::lower_bound over the times: halving search for the first T >= val
RECURSIVE LowerBound(_, _, _, _)
LowerBound(env, first, count, val) ==
    IF count > 0
    THEN LET half == count \div 2
             mid == first + half
         IN  IF RLt(GetT(env, mid), val)
             THEN LowerBound(env, mid + 1, count - half - 1, val)
             ELSE LowerBound(env, first, half, val)
    ELSE first

\* while ( after != end && after->GetT() <= when + tolerance ) ++after
RECURSIVE ScanNotAfter(_, _, _)
ScanNotAfter(env, after, when) ==
    IF after < Len(env) /\ RLe(GetT(env, after), when)
    THEN ScanNotAfter(env, after + 1, when)
    ELSE after

\* Envelope::EqualRange: [first, second]
EqualRange(env, when, sampleTime) ==
    LET tolerance == RDiv(sampleTime, R(2))
        first == LowerBound(env, 0, Len(env), RSub(when, tolerance))
    IN  [first |-> first,
         second |-> ScanNotAfter(env, first, RAdd(when, tolerance))]

(***************************************************************************)
(* Point mutation.                                                         *)
(***************************************************************************)
\* while (i < len && when > mEnv[i].GetT()) i++
RECURSIVE ScanBefore(_, _, _)
ScanBefore(env, i, when) ==
    IF i < Len(env) /\ RLt(GetT(env, i), when)
    THEN ScanBefore(env, i + 1, when)
    ELSE i

\* InsertOrReplaceRelative with the overwrite done by a plain store instead of
\* SetVal( this, value ): the variant C4InsertOrReplace must tell apart.
InsertOrReplaceRelativeUnclamped(e, when0, value) ==
    LET env == e.mEnv
        len == Len(env)
    IN  IF len > 0 /\ RLt(when0, Zero) THEN [env |-> env, ret |-> 0]
        ELSE IF len > 1 /\ RLt(e.mTrackLen, when0) THEN [env |-> env, ret |-> len - 1]
        ELSE LET when1 == IF RLt(when0, Zero) THEN Zero ELSE when0
                 when == IF len > 1 /\ RLt(e.mTrackLen, when1) THEN e.mTrackLen ELSE when1
                 i == ScanBefore(env, 0, when)
             IN  IF i < len /\ when = GetT(env, i)
                 THEN [env |-> [env EXCEPT ![i + 1].val = value], ret |-> i]
                 ELSE [env |-> Insert(env, i, EnvPoint(when, value)), ret |-> i]

\* Envelope::InsertOrReplaceRelative: [env (the new mEnv), ret (the index)]
InsertOrReplaceRelative(e, when0, value) ==
    LET env == e.mEnv
        len == Len(env)
    IN  IF len > 0 /\ RLt(when0, Zero) THEN [env |-> env, ret |-> 0]
        ELSE IF len > 1 /\ RLt(e.mTrackLen, when0) THEN [env |-> env, ret |-> len - 1]
        ELSE
        LET when1 == IF RLt(when0, Zero) THEN Zero ELSE when0
            when == IF len > 1 /\ RLt(e.mTrackLen, when1) THEN e.mTrackLen ELSE when1
            i == ScanBefore(env, 0, when)
        IN  IF i < len /\ when = GetT(env, i)
            THEN [env |-> SetVal(e, i, value), ret |-> i]
            ELSE [env |-> Insert(env, i, EnvPoint(when, value)), ret |-> i]

\* Envelope::Flatten
Flatten(e, value) ==
    [e EXCEPT !.mEnv = <<>>, !.mDefaultValue = ClampValue(e, value)]

(***************************************************************************)
(* The drag gesture.                                                       *)
(***************************************************************************)
\* std::numeric_limits<double>::max(), the off-axis time of SetDragPointValid
BigT == 1000
big == R(BigT)

\* Envelope::SetDragPoint
SetDragPoint(e, dragPoint) ==
    LET size1 == Len(e.mEnv) - 1
        lower == IF size1 < dragPoint THEN size1 ELSE dragPoint
        dp == IF lower < -1 THEN -1 ELSE lower
    IN  [e EXCEPT !.mDragPoint = dp, !.mDragPointValid = (dp >= 0)]

\* mEnv[mDragPoint] (and, where the code reads it, mEnv[mDragPoint + 1]) exists
DragPointInRange(e) == e.mDragPoint < Len(e.mEnv)

\* Envelope::SetDragPointValid, for a drag point that is in range
SetDragPointValid(e, valid) ==
    LET dp == e.mDragPoint
        size == Len(e.mEnv)
        e1 == [e EXCEPT !.mDragPointValid = (valid /\ dp >= 0)]
    IN  IF dp >= 0 /\ ~valid
        THEN IF size <= 1
             THEN LET moved == [e1 EXCEPT !.mEnv = SetT(e1.mEnv, dp, big)]
                  IN  [moved EXCEPT !.mEnv = SetVal(moved, dp, moved.mDefaultValue)]
             ELSE IF dp + 1 = size
             THEN LET moved == [e1 EXCEPT !.mEnv = SetT(e1.mEnv, dp, big)]
                  IN  [moved EXCEPT !.mEnv =
                          SetVal(moved, dp, GetVal(moved.mEnv, size - 1))]
             ELSE LET neighbor == At(e1.mEnv, dp + 1)
                      moved == [e1 EXCEPT !.mEnv = SetT(e1.mEnv, dp, neighbor.t)]
                  IN  [moved EXCEPT !.mEnv = SetVal(moved, dp, neighbor.val)]
        ELSE e1

\* Envelope::MoveDragPoint, for a drag point that is in range
MoveDragPoint(e, newWhen, value) ==
    LET e1 == SetDragPointValid(e, TRUE)
        dp == e1.mDragPoint
    IN  IF ~e1.mDragPointValid THEN e1
        ELSE
        LET limitLo == IF dp > 0 THEN RMax(Zero, GetT(e1.mEnv, dp - 1)) ELSE Zero
            limitHi == IF dp + 1 < Len(e1.mEnv)
                       THEN RMin(e1.mTrackLen, GetT(e1.mEnv, dp + 1))
                       ELSE e1.mTrackLen
            tt == RMax(limitLo, RMin(limitHi, newWhen))
            moved == [e1 EXCEPT !.mEnv = SetT(e1.mEnv, dp, tt)]
        IN  [moved EXCEPT !.mEnv = SetVal(moved, dp, value)]

\* ClearDragPoint without the test of mDragPointValid: the variant
\* C8DragLifecycle must tell apart.
ClearDragPointAlways(e) ==
    LET env == IF e.mDragPoint >= 0
               THEN Delete(e.mEnv, e.mDragPoint)
               ELSE e.mEnv
    IN  [e EXCEPT !.mEnv = env, !.mDragPoint = -1, !.mDragPointValid = FALSE]

\* Envelope::ClearDragPoint, for a drag point that is in range
ClearDragPoint(e) ==
    LET env == IF ~e.mDragPointValid /\ e.mDragPoint >= 0
               THEN Delete(e.mEnv, e.mDragPoint)
               ELSE e.mEnv
    IN  [e EXCEPT !.mEnv = env, !.mDragPoint = -1, !.mDragPointValid = FALSE]

(***************************************************************************)
(* EnvelopeEditor: the mouse events of a gesture.  The geometry of the     *)
(* pixels is left out: the point hit (bestNum, -1 for none), the time and  *)
(* value under the mouse and whether it is inside the rectangle are inputs.*)
(***************************************************************************)
\* EnvelopeEditor::mButton when no gesture is under way, and the buttons of
\* the mouse events
wxMOUSE_BTN_NONE == "none"
Buttons == {"left", "right"}

\* MouseEvent handling every button down, whatever button is recorded: the
\* variant C37GestureButton must tell apart.
MouseEventAnyDown(kind, button, recorded, dragPoint) ==
    IF kind = "ButtonDown" THEN "HandleMouseButtonDown"
    ELSE IF kind = "Dragging" /\ dragPoint >= 0 THEN "HandleDragging"
    ELSE IF kind = "ButtonUp" /\ button = recorded THEN "HandleMouseButtonUp"
    ELSE "none"

\* EnvelopeEditor::MouseEvent, lines 598-606: the handler of an event of the
\* given kind and button, recorded being mButton ("none" for
\* wxMOUSE_BTN_NONE) and dragPoint mEnvelope.GetDragPoint()
MouseEvent(kind, button, recorded, dragPoint) ==
    IF kind = "ButtonDown" /\ recorded = wxMOUSE_BTN_NONE THEN "HandleMouseButtonDown"
    ELSE IF kind = "Dragging" /\ dragPoint >= 0 THEN "HandleDragging"
    ELSE IF kind = "ButtonUp" /\ button = recorded THEN "HandleMouseButtonUp"
    ELSE "none"

\* line 516: mEnvelope.SetDragPoint( r ), r being what InsertOrReplaceRelative
\* returned
DragInserted(e, r) == SetDragPoint([e EXCEPT !.mEnv = r.env], r.ret)

\* EnvelopeEditor::HandleMouseButtonDown, lines 483-516: no point was hit; g is
\* the value read at when (line 490)
CreateNewPoint(e, when, newVal, g) ==
    DragInserted([e EXCEPT !.mSearchGuess = g.guess],
                 InsertOrReplaceRelative([e EXCEPT !.mSearchGuess = g.guess],
                                         when, newVal))

\* EnvelopeEditor::HandleMouseButtonDown, lines 480-517, on the envelope e
HandleMouseButtonDown(e, bestNum, when, newVal) ==
    IF bestNum >= 0
    THEN SetDragPoint(e, bestNum)
    ELSE CreateNewPoint(e, when, newVal, GetValue(e, when))

\* EnvelopeEditor::HandleDragging, lines 548-573, on the envelope e: [e, ret]
HandleDragging(e, inside, when, newVal) ==
    IF inside
    THEN [e |-> MoveDragPoint(e, RSub(when, e.mOffset), newVal), ret |-> TRUE]
    ELSE IF ~e.mDragPointValid
    THEN [e |-> e, ret |-> FALSE]
    ELSE [e |-> SetDragPointValid(e, FALSE), ret |-> TRUE]

(***************************************************************************)
(* Length of the time axis.                                                *)
(***************************************************************************)
\* the loop of Envelope::AddPointAtEnd, on the array after push_back
RECURSIVE AddPointAtEndLoop(_, _, _)
AddPointAtEndLoop(env, nn, t) ==
    IF nn >= 2 /\ GetT(env, nn - 2) = t
    THEN AddPointAtEndLoop(Delete(env, nn - 1), nn - 1, t)
    ELSE env

\* Envelope::AddPointAtEnd
AddPointAtEnd(env, t, val) ==
    LET pushed == Append(env, EnvPoint(t, val))
    IN  AddPointAtEndLoop(pushed, Len(pushed) - 1, t)

\* Envelope::SetTrackLen when a point is needed, g the value read at trackLen
SetTrackLenWithPoint(e, trackLen, g) ==
    [e EXCEPT !.mTrackLen = trackLen,
              !.mSearchGuess = g.guess,
              !.mEnv = AddPointAtEnd(
                  SubSeq(e.mEnv, 1, EqualRange(e.mEnv, trackLen, Zero).second),
                  trackLen, g.v)]

\* Envelope::SetTrackLen
SetTrackLen(e, trackLen) ==
    IF RLt(trackLen, e.mTrackLen)
    THEN SetTrackLenWithPoint(e, trackLen, GetValueRelative(e, trackLen))
    ELSE [e EXCEPT !.mTrackLen = trackLen,
                   !.mEnv = SubSeq(e.mEnv, 1,
                                   EqualRange(e.mEnv, trackLen, Zero).second)]

\* Envelope::SetOffset
SetOffset(e, newOffset) == [e EXCEPT !.mOffset = newOffset]

\* Envelope::RescaleTimes
RescaleTimes(e, newLength) ==
    LET env == e.mEnv
        scaled == IF e.mTrackLen = Zero
                  THEN [k \in 1..Len(env) |-> [env[k] EXCEPT !.t = Zero]]
                  ELSE LET ratio == RDiv(newLength, e.mTrackLen)
                       IN  [k \in 1..Len(env) |->
                               [env[k] EXCEPT !.t = RMul(env[k].t, ratio)]]
    IN  [e EXCEPT !.mEnv = scaled, !.mTrackLen = newLength]

(***************************************************************************)
(* Region operations.                                                      *)
(***************************************************************************)
\* point.SetT( point.GetT() + delta ) for the points from index first on
ShiftFrom(env, first, delta) ==
    [k \in 1..Len(env) |->
        IF k > first THEN [env[k] EXCEPT !.t = RAdd(env[k].t, delta)] ELSE env[k]]

\* auto val = GetValueRelative( t ); InsertOrReplaceRelative( t, val );
\* with g the value read
InsertValueRead(e, t, g) ==
    [e EXCEPT !.mSearchGuess = g.guess,
              !.mEnv = InsertOrReplaceRelative(e, t, g.v).env]

InsertValueAt(e, t) == InsertValueRead(e, t, GetValueRelative(e, t))

\* Envelope::CollapseRegion, lines 638-653: the end of the range to erase
CollapseRegionEnd(e1, begin, t0, t1, epsilon, range1) ==
    [e |-> IF range1.first = range1.second /\ RLt(epsilon, RSub(e1.mTrackLen, t1))
           THEN InsertValueAt(e1, t1)
           ELSE e1,
     begin |-> begin,
     end |-> IF range1.first = range1.second
             THEN range1.second
             ELSE range1.second - 1,
     t0 |-> t0, t1 |-> t1]

\* Envelope::CollapseRegion, lines 622-636: the start of the range to erase
CollapseRegionBegin(e, t0, t1, epsilon, range0) ==
    LET insert0 == range0.first = range0.second /\ RLt(epsilon, t0)
        e1 == IF insert0 THEN InsertValueAt(e, t0) ELSE e
        begin == IF range0.first = range0.second /\ ~insert0
                 THEN range0.first
                 ELSE range0.first + 1
    IN  CollapseRegionEnd(e1, begin, t0, t1, epsilon,
                          EqualRange(e1.mEnv, t1, Zero))

\* with the times made relative and clamped (lines 618-620)
CollapseRegionClamped(e, t0, t1, epsilon) ==
    CollapseRegionBegin(e, t0, t1, epsilon, EqualRange(e.mEnv, t0, Zero))

\* Envelope::CollapseRegion up to its erase: the object with the boundary
\* points inserted, the range [begin, end) to erase and the clamped times
CollapseRegionRange(e, t0, t1, sampleTime) ==
    CollapseRegionClamped(e,
        RMax(Zero, RMin(e.mTrackLen, RSub(t0, e.mOffset))),
        RMax(Zero, RMin(e.mTrackLen, RSub(t1, e.mOffset))),
        RDiv(sampleTime, R(2)))

\* Envelope::CollapseRegion, lines 655-664, when [begin, end) is a range of
\* the array
CollapseRegionErase(r) ==
    [r.e EXCEPT !.mEnv = ShiftFrom(EraseRange(r.e.mEnv, r.begin, r.end), r.begin,
                                   RSub(r.t0, r.t1)),
                !.mTrackLen = RSub(r.e.mTrackLen, RSub(r.t1, r.t0))]

\* Envelope::CollapseRegion
CollapseRegion(e, t0, t1, sampleTime) ==
    CollapseRegionErase(CollapseRegionRange(e, t0, t1, sampleTime))

\* Envelope::InsertSpace, lines 929-938
InsertSpaceShift(e0, tlen, env1, index) ==
    [e0 EXCEPT !.mEnv = ShiftFrom(env1, index, tlen),
               !.mTrackLen = RAdd(e0.mTrackLen, tlen)]

InsertSpaceShiftNew(e0, tlen, ins) == InsertSpaceShift(e0, tlen, ins.env, 1 + ins.ret)

\* Envelope::InsertSpace, lines 921-927
InsertSpaceLeft(e0, t0, tlen, val, range) ==
    IF range.first < range.second
    THEN InsertSpaceShift(e0, tlen, e0.mEnv, 1 + range.first)
    ELSE InsertSpaceShiftNew(e0, tlen, InsertOrReplaceRelative(e0, t0, val))

\* Envelope::InsertSpace, lines 939-944
InsertSpaceRight(e1, t0, tlen, val, range) ==
    IF 1 + range.first < range.second
    THEN e1
    ELSE [e1 EXCEPT !.mEnv = InsertOrReplaceRelative(e1, RAdd(t0, tlen), val).env]

InsertSpaceRead(e, t0, tlen, g, range) ==
    InsertSpaceRight(
        InsertSpaceLeft([e EXCEPT !.mSearchGuess = g.guess], t0, tlen, g.v, range),
        t0, tlen, g.v, range)

InsertSpaceRelative(e, t0, tlen) ==
    InsertSpaceRead(e, t0, tlen, GetValueRelative(e, t0), EqualRange(e.mEnv, t0, Zero))

\* Envelope::InsertSpace
InsertSpace(e, t0, tlen) == InsertSpaceRelative(e, RSub(t0, e.mOffset), tlen)

(***************************************************************************)
(* Paste.  mTrackEpsilon is a member of the class, one sample of a 200 kHz *)
(* track (line 541); a model time unit is two of them.  The distance below *)
(* which Paste takes t0 to be on a point is 1 / 500000 s (line 751), two   *)
(* fifths of mTrackEpsilon.                                                *)
(***************************************************************************)
mTrackEpsilon == RNorm(1, 2)

PointTolerance == RMul(RNorm(2, 5), mTrackEpsilon)

\* Envelope::Paste, lines 746-754: [someToShift, pos, onPoint] after the
\* points from index i on, s being the flags before them
RECURSIVE PasteScan(_, _, _, _)
PasteScan(env, t0, i, s) ==
    IF i >= Len(env) THEN s
    ELSE IF RLt(t0, GetT(env, i))
    THEN PasteScan(env, t0, i + 1, [s EXCEPT !.someToShift = TRUE])
    ELSE PasteScan(env, t0, i + 1,
             [s EXCEPT !.pos = i,
                       !.onPoint = \/ s.onPoint
                                   \/ RLt(RSub(RAbs(RSub(GetT(env, i), t0)), PointTolerance),
                                          Zero)])

\* InsertOrReplaceRelative( when, value ) with the index dropped
InsertPoint(e, when, value) ==
    [e EXCEPT !.mEnv = InsertOrReplaceRelative(e, when, value).env]

\* Envelope::Paste, lines 802-805 (Case 7), e1 being the envelope with the
\* point at pos moved left
PasteCase7(e1, t0, splitval) == InsertPoint(e1, RAdd(t0, mTrackEpsilon), splitval)

\* Envelope::Paste, lines 809-812 (Case 5), e1 being the envelope with the
\* left guard point
PasteCase5(e1, t0, splitval) == InsertPoint(e1, RAdd(t0, mTrackEpsilon), splitval)

\* Envelope::Paste, lines 756-823: [e (the envelope framed), someToShift]
PasteFrame(e, t0, splitval, s) ==
    IF RLt(t0, mTrackEpsilon)
    THEN IF s.onPoint
         THEN [e |-> [e EXCEPT !.mEnv =
                          SetT(e.mEnv, 0, RAdd(GetT(e.mEnv, 0), mTrackEpsilon))],
               someToShift |-> TRUE]
         ELSE [e |-> InsertPoint(e, RAdd(t0, mTrackEpsilon), splitval),
               someToShift |-> TRUE]
    ELSE IF RLt(RSub(e.mTrackLen, t0), mTrackEpsilon)
    THEN IF s.onPoint
         THEN [e |-> [e EXCEPT !.mEnv =
                          SetT(e.mEnv, 0, RSub(GetT(e.mEnv, 0), mTrackEpsilon))],
               someToShift |-> s.someToShift]
         ELSE [e |-> InsertPoint(e, RSub(t0, mTrackEpsilon), splitval),
               someToShift |-> s.someToShift]
    ELSE IF s.onPoint
    THEN [e |-> PasteCase7(
                    [e EXCEPT !.mEnv =
                        SetT(e.mEnv, s.pos, RSub(GetT(e.mEnv, s.pos), mTrackEpsilon))],
                    t0, splitval),
          someToShift |-> TRUE]
    ELSE IF ~RLt(t0, Zero) /\ ~RLt(e.mTrackLen, t0)
    THEN [e |-> PasteCase5(InsertPoint(e, RSub(t0, mTrackEpsilon), splitval),
                           t0, splitval),
          someToShift |-> TRUE]
    ELSE [e |-> e, someToShift |-> s.someToShift]

\* Envelope::Paste, lines 825-832
PasteShift(f, t0, deltat) ==
    [f.e EXCEPT
        !.mEnv = [k \in 1..Len(f.e.mEnv) |->
                    IF f.someToShift /\ RLt(t0, f.e.mEnv[k].t)
                    THEN [f.e.mEnv[k] EXCEPT !.t = RAdd(f.e.mEnv[k].t, deltat)]
                    ELSE f.e.mEnv[k]],
        !.mTrackLen = RAdd(f.e.mTrackLen, deltat)]

\* Envelope::Paste, lines 834-847 (Case 10)
PasteIntoEmpty(e, o) ==
    IF e.mTrackLen = Zero
    THEN [e EXCEPT !.mTrackLen = o.mTrackLen, !.mOffset = o.mOffset]
    ELSE [e EXCEPT !.mTrackLen = RAdd(e.mTrackLen, o.mTrackLen)]

\* Envelope::Paste, lines 861-863: the points of o from index i on
RECURSIVE PasteCopy(_, _, _, _)
PasteCopy(e, t0, o, i) ==
    IF i >= Len(o.mEnv) THEN e
    ELSE PasteCopy(InsertPoint(e, RAdd(t0, GetT(o.mEnv, i)), GetVal(o.mEnv, i)),
                   t0, o, i + 1)

\* Envelope::Paste, lines 857-858
PasteEnds(e, t0, o, leftval, rightval) ==
    InsertPoint(InsertPoint(e, t0, leftval), RAdd(t0, o.mTrackLen), rightval)

\* Envelope::Paste, lines 849-863
PastePoints(e, t0, o, wasEmpty) ==
    IF wasEmpty
    THEN PasteCopy(e, t0, o, 0)
    ELSE PasteCopy(PasteEnds(e, t0, o, GetValue(o, o.mOffset).v,
                             GetValue(o, RAdd(o.mTrackLen, o.mOffset)).v),
                   t0, o, 0)

\* Envelope::Paste, lines 704, 743-847, g being the value read at t0
PasteSplit(e, t0, o, g) ==
    IF Len(e.mEnv) # 0
    THEN PasteShift(PasteFrame([e EXCEPT !.mSearchGuess = g.guess], t0, g.v,
                               PasteScan(e.mEnv, t0, 0,
                                   [someToShift |-> FALSE, pos |-> 0, onPoint |-> FALSE])),
                    t0, o.mTrackLen)
    ELSE PasteIntoEmpty([e EXCEPT !.mSearchGuess = g.guess], o)

\* Envelope::Paste, lines 690-863, t0 having its origin at zero
PasteRelative(e, t0, o) ==
    PastePoints(PasteSplit(e, t0, o, GetValue(e, RAdd(t0, e.mOffset))), t0, o,
                Len(e.mEnv) = 0)

\* Paste without the early return of lines 680-688: the variant
\* C21PasteDegenerate must tell apart.
PasteAlways(e, t0, o) == PasteRelative(e, RMin(RSub(t0, e.mOffset), e.mTrackLen), o)

\* Envelope::Paste( t0, e ): o is the envelope pasted
Paste(e, t0, o) ==
    IF Len(o.mEnv) = 0 /\ Len(e.mEnv) = 0 /\ o.mDefaultValue = e.mDefaultValue
    THEN [e EXCEPT !.mTrackLen = RAdd(e.mTrackLen, o.mTrackLen)]
    ELSE PasteRelative(e, RMin(RSub(t0, e.mOffset), e.mTrackLen), o)

(***************************************************************************)
(* RemoveUnneededPoints and Reassign.  A model time unit is 1/100000 s     *)
(* (two mTrackEpsilon), so the 0.00025 s of line 889 are 25 units.         *)
(***************************************************************************)
NearTime == 25

\* RemoveBack without the test of the size: the variant C34ScanBound must tell
\* apart.
RemoveBackInserted(e, i, len) == [e |-> e, i |-> i + 1, len |-> len]

\* Envelope::RemoveUnneededPoints, lines 898-908: e is the envelope after
\* InsertOrReplaceRelative( when, val ); [e, i, len] at the next test of the
\* loop
RemoveBack(e, i, len) ==
    IF Len(e.mEnv) < len
    THEN [e |-> e, i |-> i, len |-> len - 1]
    ELSE [e |-> e, i |-> i + 1, len |-> len]

\* Envelope::RemoveUnneededPoints, lines 894-908: e is the envelope without the
\* point (when, val), g the value read at when
RemoveTest(e, tolerence, i, len, when, val, g) ==
    IF RLt(tolerence, RAbs(RSub(val, g.v)))
    THEN RemoveBack(InsertPoint([e EXCEPT !.mSearchGuess = g.guess], when, val), i, len)
    ELSE [e |-> [e EXCEPT !.mSearchGuess = g.guess], i |-> i, len |-> len - 1]

\* Envelope::RemoveUnneededPoints, lines 885-908: one pass of the loop body
\* for i < len, [e, i, len] at the next test of the loop
RemoveStep(e, time, tolerence, i, len) ==
    IF /\ RLe(Zero, time)
       /\ RLt(R(NearTime), RAbs(RSub(RAdd(GetT(e.mEnv, i), e.mOffset), time)))
    THEN [e |-> e, i |-> i + 1, len |-> len]
    ELSE RemoveTest([e EXCEPT !.mEnv = Delete(e.mEnv, i)], tolerence, i, len,
                    GetT(e.mEnv, i), GetVal(e.mEnv, i),
                    GetValue([e EXCEPT !.mEnv = Delete(e.mEnv, i)],
                             RAdd(GetT(e.mEnv, i), e.mOffset)))

RECURSIVE RemoveLoop(_, _, _, _, _)

\* the loop goes on from the state s that a pass has left
RemoveFrom(s, time, tolerence) == RemoveLoop(s.e, time, tolerence, s.i, s.len)

\* Envelope::RemoveUnneededPoints, lines 885-909, from index i on
RemoveLoop(e, time, tolerence, i, len) ==
    IF i >= len THEN e
    ELSE RemoveFrom(RemoveStep(e, time, tolerence, i, len), time, tolerence)

RECURSIVE RemoveInRange(_, _, _, _, _)

RemoveInRangeFrom(s, time, tolerence) == RemoveInRange(s.e, time, tolerence, s.i, s.len)

\* every pass of the loop from (e, i, len) on reads and deletes a point of the
\* array: mEnv[i] of line 886 and Delete(i) of line 893 have i < mEnv.size()
RemoveInRange(e, time, tolerence, i, len) ==
    i < len =>
        /\ i < Len(e.mEnv)
        /\ RemoveInRangeFrom(RemoveStep(e, time, tolerence, i, len), time, tolerence)

\* Envelope::RemoveUnneededPoints
RemoveUnneededPoints(e, time, tolerence) ==
    IF Len(e.mEnv) = 0 THEN e ELSE RemoveLoop(e, time, tolerence, 0, Len(e.mEnv))

RECURSIVE ReassignScan(_, _, _)
RECURSIVE ReassignScanPast(_, _, _)

\* The scan of Reassign going on past a point at when (>= in place of >): the
\* variant C23Reassign must tell apart.
ReassignScanPast(env, i, when) ==
    IF i < Len(env) /\ RLe(GetT(env, i), when)
    THEN ReassignScanPast(env, i + 1, when)
    ELSE i

\* Envelope::Reassign, lines 955-957
ReassignScan(env, i, when) ==
    IF i < Len(env) /\ RLt(GetT(env, i), when)
    THEN ReassignScan(env, i + 1, when)
    ELSE i

\* Envelope::Reassign, lines 959-963, i being the index found: [env, ret]
ReassignAt(e, when, value, i) ==
    IF i >= Len(e.mEnv) \/ RLt(when, GetT(e.mEnv, i))
    THEN [env |-> e.mEnv, ret |-> -1]
    ELSE [env |-> SetVal(e, i, value), ret |-> 0]

\* Envelope::Reassign: [env (the new mEnv), ret]
Reassign(e, when, value) ==
    IF Len(e.mEnv) = 0
    THEN [env |-> e.mEnv, ret |-> -1]
    ELSE ReassignAt(e, RSub(when, e.mOffset), value,
                    ReassignScan(e.mEnv, 0, RSub(when, e.mOffset)))

(***************************************************************************)
(* The state: the fields of one Envelope, the flag ub (undefined behaviour *)
(* has been executed: an index past the end of mEnv was used), and last,   *)
(* the call made last with its arguments and its result.                   *)
(***************************************************************************)
VARIABLES mEnv, mTrackLen, mOffset, mDefaultValue, mMinValue, mMaxValue,
          mDragPoint, mDragPointValid, mSearchGuess, ub, last, mButton

vars == <<mEnv, mTrackLen, mOffset, mDefaultValue, mMinValue, mMaxValue,
          mDragPoint, mDragPointValid, mSearchGuess, ub, last, mButton>>


\* the Envelope object (*this)
Self ==
    [mEnv |-> mEnv, mTrackLen |-> mTrackLen, mOffset |-> mOffset,
     mDefaultValue |-> mDefaultValue, mMinValue |-> mMinValue,
     mMaxValue |-> mMaxValue, mDragPoint |-> mDragPoint,
     mDragPointValid |-> mDragPointValid, mSearchGuess |-> mSearchGuess]

\* Envelope::Envelope(exponential, minValue, maxValue, defaultValue)
NewEnvelope(minValue, maxValue, defaultValue) ==
    [mEnv |-> <<>>, mTrackLen |-> Zero, mOffset |-> Zero,
     mDefaultValue |-> RMax(minValue, RMin(maxValue, defaultValue)),
     mMinValue |-> minValue, mMaxValue |-> maxValue,
     mDragPoint |-> -1, mDragPointValid |-> FALSE, mSearchGuess |-> -2]

(***************************************************************************)
(* Integrals, with linear interpolation (mDB false).                       *)
(***************************************************************************)
One == R(1)

\* InterpolatePoints( y1, y2, factor, false )
InterpolatePoints(y1, y2, factor) ==
    RAdd(RMul(y1, RSub(One, factor)), RMul(y2, factor))

\* IntegrateInterpolated taking the value at the start for the whole segment:
\* the variant C26IntegralAdditive must tell apart.
IntegrateRectangle(y1, y2, time) == RMul(y1, time)

\* IntegrateInterpolated( y1, y2, time, false )
IntegrateInterpolated(y1, y2, time) ==
    RMul(RMul(RAdd(y1, y2), RNorm(1, 2)), time)

\* InterpolateAt taking the value of the point i: the variant C27IntegralIsArea
\* must tell apart.
InterpolateAtEnd(env, i, t) == GetVal(env, i)

\* the value interpolated at t between the points i - 1 and i (lines 1452, 1466)
InterpolateAt(env, i, t) ==
    InterpolatePoints(GetVal(env, i - 1), GetVal(env, i),
                      RDiv(RSub(t, GetT(env, i - 1)),
                           RSub(GetT(env, i), GetT(env, i - 1))))

\* Envelope::Integral, lines 1457-1476: the loop, from the point i on
RECURSIVE IntegralLoop(_, _, _, _, _, _)
IntegralLoop(env, t1, i, total, lastT, lastVal) ==
    IF i >= Len(env)
    THEN RAdd(total, RMul(RSub(t1, lastT), lastVal))
    ELSE IF RLe(t1, GetT(env, i))
    THEN RAdd(total,
              IntegrateInterpolated(lastVal, InterpolateAt(env, i, t1), RSub(t1, lastT)))
    ELSE IntegralLoop(env, t1, i + 1,
                      RAdd(total, IntegrateInterpolated(lastVal, GetVal(env, i),
                                                        RSub(GetT(env, i), lastT))),
                      GetT(env, i), GetVal(env, i))

\* Envelope::Integral, lines 1447-1455, s being the bracket found: [v, guess]
IntegralEnclosed(env, t0, t1, s) ==
    [v |-> IntegralLoop(env, t1, s.Hi, Zero, t0,
                        InterpolatePoints(GetVal(env, s.Lo), GetVal(env, s.Hi),
                            RDiv(RSub(t0, GetT(env, s.Lo)),
                                 RSub(GetT(env, s.Hi), GetT(env, s.Lo))))),
     guess |-> s.guess]

\* Envelope::Integral, lines 1429-1476, for t0 < t1 relative to mOffset and an
\* array with points: [v, guess]
IntegralRelative(e, t0, t1) ==
    IF RLt(t0, GetT(e.mEnv, 0))
    THEN IF RLe(t1, GetT(e.mEnv, 0))
         THEN [v |-> RMul(RSub(t1, t0), GetVal(e.mEnv, 0)), guess |-> e.mSearchGuess]
         ELSE [v |-> IntegralLoop(e.mEnv, t1, 1,
                                  RMul(RSub(GetT(e.mEnv, 0), t0), GetVal(e.mEnv, 0)),
                                  GetT(e.mEnv, 0), GetVal(e.mEnv, 0)),
               guess |-> e.mSearchGuess]
    ELSE IF RLe(GetT(e.mEnv, Len(e.mEnv) - 1), t0)
    THEN [v |-> RMul(RSub(t1, t0), GetVal(e.mEnv, Len(e.mEnv) - 1)),
          guess |-> e.mSearchGuess]
    ELSE IntegralEnclosed(e.mEnv, t0, t1, BinarySearchForTime(e.mEnv, e.mSearchGuess, t0))

\* Flipped without the negation: the variant C28IntegralAntisymmetric must
\* tell apart.
FlippedSameSign(r) == [v |-> r.v, guess |-> r.guess, flips |-> r.flips + 1]

\* the result r of the call with the arguments exchanged, negated (line 1422)
Flipped(r) == [v |-> RSub(Zero, r.v), guess |-> r.guess, flips |-> r.flips + 1]

\* the result r of the loop, reached without a further exchange
Straight(r) == [v |-> r.v, guess |-> r.guess, flips |-> 0]

\* Envelope::Integral: [v, guess, flips (the depth of the recursion)]
RECURSIVE Integral(_, _, _)
Integral(e, t0, t1) ==
    IF t0 = t1
    THEN [v |-> Zero, guess |-> e.mSearchGuess, flips |-> 0]
    ELSE IF RLt(t1, t0)
    THEN Flipped(Integral(e, t1, t0))
    ELSE IF Len(e.mEnv) = 0
    THEN [v |-> RMul(RSub(t1, t0), e.mDefaultValue), guess |-> e.mSearchGuess,
          flips |-> 0]
    ELSE Straight(IntegralRelative(e, RSub(t0, e.mOffset), RSub(t1, e.mOffset)))

(***************************************************************************)
(* Integrals of the inverse, with linear interpolation (mDB false).  The   *)
(* logarithm and exponential of a segment that is not flat have no exact   *)
(* rational value: the operators are defined on flat segments, where the   *)
(* code falls back to the average, and yield Irrational elsewhere.         *)
(***************************************************************************)
Irrational == "irrational"

\* the threshold 1.0e-5 of lines 1382, 1397, 1406
FlatThreshold == RNorm(1, 100000)

\* IntegrateInverseInterpolated( y1, y2, time, false ): l = log(y1 / y2) is 0
\* for y1 = y2
IntegrateInverseInterpolated(y1, y2, time) ==
    IF y1 = y2
    THEN RMul(RDiv(R(2), RAdd(y1, y2)), time)
    ELSE Irrational

\* SolveIntegrateInverseInterpolated returning the whole segment: the variant
\* C29SolveInverts must tell apart.
SolveWholeSegment(y1, y2, time, area) == time

\* the result res of lines 1406-1409, a being area / time
SolveFraction(y1, y2, a) ==
    IF RLt(RAbs(RSub(y2, y1)), FlatThreshold)
    THEN RMul(RMul(a, RAdd(y1, y2)), RNorm(1, 2))
    ELSE Irrational

\* SolveIntegrateInverseInterpolated( y1, y2, time, area, false )
SolveIntegrateInverseInterpolated(y1, y2, time, area) ==
    RMul(RMax(Zero, RMin(One, SolveFraction(y1, y2, RDiv(area, time)))), time)

\* Envelope::IntegralOfInverse, lines 1520-1539
RECURSIVE IntegralOfInverseLoop(_, _, _, _, _, _)
IntegralOfInverseLoop(env, t1, i, total, lastT, lastVal) ==
    IF i >= Len(env)
    THEN RAdd(total, RDiv(RSub(t1, lastT), lastVal))
    ELSE IF RLe(t1, GetT(env, i))
    THEN RAdd(total,
              IntegrateInverseInterpolated(lastVal, InterpolateAt(env, i, t1),
                                           RSub(t1, lastT)))
    ELSE IntegralOfInverseLoop(env, t1, i + 1,
                               RAdd(total,
                                    IntegrateInverseInterpolated(lastVal, GetVal(env, i),
                                        RSub(GetT(env, i), lastT))),
                               GetT(env, i), GetVal(env, i))

\* Envelope::IntegralOfInverse, lines 1510-1518, s being the bracket found
IntegralOfInverseEnclosed(env, t0, t1, s) ==
    [v |-> IntegralOfInverseLoop(env, t1, s.Hi, Zero, t0,
                                 InterpolatePoints(GetVal(env, s.Lo), GetVal(env, s.Hi),
                                     RDiv(RSub(t0, GetT(env, s.Lo)),
                                          RSub(GetT(env, s.Hi), GetT(env, s.Lo))))),
     guess |-> s.guess]

\* Envelope::IntegralOfInverse, lines 1492-1539, for t0 < t1 relative to mOffset
\* and an array with points: [v, guess]
IntegralOfInverseRelative(e, t0, t1) ==
    IF RLt(t0, GetT(e.mEnv, 0))
    THEN IF RLe(t1, GetT(e.mEnv, 0))
         THEN [v |-> RDiv(RSub(t1, t0), GetVal(e.mEnv, 0)), guess |-> e.mSearchGuess]
         ELSE [v |-> IntegralOfInverseLoop(e.mEnv, t1, 1,
                                           RDiv(RSub(GetT(e.mEnv, 0), t0),
                                                GetVal(e.mEnv, 0)),
                                           GetT(e.mEnv, 0), GetVal(e.mEnv, 0)),
               guess |-> e.mSearchGuess]
    ELSE IF RLe(GetT(e.mEnv, Len(e.mEnv) - 1), t0)
    THEN [v |-> RDiv(RSub(t1, t0), GetVal(e.mEnv, Len(e.mEnv) - 1)),
          guess |-> e.mSearchGuess]
    ELSE IntegralOfInverseEnclosed(e.mEnv, t0, t1,
                                   BinarySearchForTime(e.mEnv, e.mSearchGuess, t0))

\* the result r of the call with the arguments exchanged, negated (line 1485)
Negated(r) == [v |-> RSub(Zero, r.v), guess |-> r.guess]

\* Envelope::IntegralOfInverse: [v, guess]
RECURSIVE IntegralOfInverse(_, _, _)
IntegralOfInverse(e, t0, t1) ==
    IF t0 = t1
    THEN [v |-> Zero, guess |-> e.mSearchGuess]
    ELSE IF RLt(t1, t0)
    THEN Negated(IntegralOfInverse(e, t1, t0))
    ELSE IF Len(e.mEnv) = 0
    THEN [v |-> RDiv(RSub(t1, t0), e.mDefaultValue), guess |-> e.mSearchGuess]
    ELSE IntegralOfInverseRelative(e, RSub(t0, e.mOffset), RSub(t1, e.mOffset))

\* the segment from the point i up to lastT, with its sign (lines 1611-1612)
AddedBackward(env, i, lastT, lastVal) ==
    RSub(Zero, IntegrateInverseInterpolated(GetVal(env, i), lastVal,
                                            RSub(lastT, GetT(env, i))))

\* Envelope::SolveIntegralOfInverse, lines 1603-1620: area < 0, i the next
\* point to the left
RECURSIVE SolveBackward(_, _, _, _, _)
SolveBackward(env, area, i, lastT, lastVal) ==
    IF i < 0
    THEN RAdd(lastT, RMul(area, lastVal))
    ELSE IF RLe(AddedBackward(env, i, lastT, lastVal), area)
    THEN RSub(lastT,
              SolveIntegrateInverseInterpolated(lastVal, GetVal(env, i),
                                                RSub(lastT, GetT(env, i)),
                                                RSub(Zero, area)))
    ELSE SolveBackward(env, RSub(area, AddedBackward(env, i, lastT, lastVal)),
                       i - 1, GetT(env, i), GetVal(env, i))

\* the segment from lastT up to the point i (line 1632)
AddedForward(env, i, lastT, lastVal) ==
    IntegrateInverseInterpolated(lastVal, GetVal(env, i), RSub(GetT(env, i), lastT))

\* Envelope::SolveIntegralOfInverse, lines 1624-1640: area >= 0, i the next
\* point to the right
RECURSIVE SolveForward(_, _, _, _, _)
SolveForward(env, area, i, lastT, lastVal) ==
    IF i >= Len(env)
    THEN RAdd(lastT, RMul(area, lastVal))
    ELSE IF RLe(area, AddedForward(env, i, lastT, lastVal))
    THEN RAdd(lastT,
              SolveIntegrateInverseInterpolated(lastVal, GetVal(env, i),
                                                RSub(GetT(env, i), lastT), area))
    ELSE SolveForward(env, RSub(area, AddedForward(env, i, lastT, lastVal)),
                      i + 1, GetT(env, i), GetVal(env, i))

\* lines 1600-1641: the loop in the direction of the sign of area
SolveLoop(env, area, i, lastT, lastVal) ==
    IF RLt(area, Zero)
    THEN SolveBackward(env, area, i, lastT, lastVal)
    ELSE SolveForward(env, area, i, lastT, lastVal)

\* lines 1557-1571: t0 preceding the first point
SolveBeforeFirst(env, t0, area) ==
    IF RLt(area, Zero) \/ RLe(area, RDiv(RSub(GetT(env, 0), t0), GetVal(env, 0)))
    THEN RAdd(t0, RMul(area, GetVal(env, 0)))
    ELSE SolveForward(env, RSub(area, RDiv(RSub(GetT(env, 0), t0), GetVal(env, 0))),
                      1, GetT(env, 0), GetVal(env, 0))

\* lines 1572-1586: t0 at or following the last point, count the number of
\* points
SolveAfterLast(env, t0, area, count) ==
    IF RLe(Zero, area)
          \/ RLe(RDiv(RSub(GetT(env, count - 1), t0), GetVal(env, count - 1)), area)
    THEN RAdd(t0, RMul(area, GetVal(env, count - 1)))
    ELSE SolveBackward(env,
                       RSub(area, RDiv(RSub(GetT(env, count - 1), t0),
                                       GetVal(env, count - 1))),
                       count - 2, GetT(env, count - 1), GetVal(env, count - 1))

\* lines 1587-1598 and the loops: t0 enclosed by points, s the bracket found
SolveEnclosed(env, t0, area, s) ==
    [v |-> SolveLoop(env, area, IF RLt(area, Zero) THEN s.Lo ELSE s.Hi, t0,
                     InterpolatePoints(GetVal(env, s.Lo), GetVal(env, s.Hi),
                         RDiv(RSub(t0, GetT(env, s.Lo)),
                              RSub(GetT(env, s.Hi), GetT(env, s.Lo))))),
     guess |-> s.guess]

\* the lambda of lines 1553-1642, t0 relative to mOffset: [v, guess]
SolveRelative(e, t0, area) ==
    IF RLt(t0, GetT(e.mEnv, 0))
    THEN [v |-> SolveBeforeFirst(e.mEnv, t0, area), guess |-> e.mSearchGuess]
    ELSE IF RLe(GetT(e.mEnv, Len(e.mEnv) - 1), t0)
    THEN [v |-> SolveAfterLast(e.mEnv, t0, area, Len(e.mEnv)),
          guess |-> e.mSearchGuess]
    ELSE SolveEnclosed(e.mEnv, t0, area,
                       BinarySearchForTime(e.mEnv, e.mSearchGuess, t0))

\* line 1553: mOffset + the result r of the lambda
OffsetBack(e, r) == [v |-> RAdd(e.mOffset, r.v), guess |-> r.guess]

\* Envelope::SolveIntegralOfInverse: [v, guess]
SolveIntegralOfInverse(e, t0, area) ==
    IF area = Zero
    THEN [v |-> t0, guess |-> e.mSearchGuess]
    ELSE IF Len(e.mEnv) = 0
    THEN [v |-> RAdd(t0, RMul(area, e.mDefaultValue)), guess |-> e.mSearchGuess]
    ELSE OffsetBack(e, SolveRelative(e, RSub(t0, e.mOffset), area))

(***************************************************************************)
(* Copies.                                                                 *)
(***************************************************************************)
\* Envelope::CopyRange, lines 231-235: the points of orig from index i up to
\* end, appended to env with their times on the origin mOffset0
RECURSIVE CopyPoints(_, _, _, _, _)
CopyPoints(orig, mOffset0, env, i, end) ==
    IF i >= end THEN env
    ELSE CopyPoints(orig, mOffset0,
                    AddPointAtEnd(env,
                                  RAdd(GetT(orig.mEnv, i), RSub(orig.mOffset, mOffset0)),
                                  GetVal(orig.mEnv, i)),
                    i + 1, end)

\* Envelope::CopyRange, lines 226-228
CopyFirst(orig, mOffset0, begin) ==
    IF begin > 0
    THEN AddPointAtEnd(<<>>, Zero, GetValue(orig, mOffset0).v)
    ELSE <<>>

\* CopyRange adding the final point without the test i < len of line 239: the
\* variant C25Copy must tell apart.
CopyLastAlways(orig, e, env, i) ==
    IF RLt(Zero, e.mTrackLen)
    THEN AddPointAtEnd(env, e.mTrackLen, GetValue(orig, RAdd(e.mOffset, e.mTrackLen)).v)
    ELSE env

\* Envelope::CopyRange, lines 237-240, i being the index the loop ended at
CopyLast(orig, e, env, i) ==
    IF RLt(Zero, e.mTrackLen) /\ i < Len(orig.mEnv)
    THEN AddPointAtEnd(env, e.mTrackLen, GetValue(orig, RAdd(e.mOffset, e.mTrackLen)).v)
    ELSE env

\* Envelope::CopyRange, into the envelope e under construction
CopyRange(e, orig, begin, end) ==
    [e EXCEPT !.mEnv =
        CopyLast(orig, e,
                 CopyPoints(orig, e.mOffset, CopyFirst(orig, e.mOffset, begin), begin, end),
                 IF begin < end THEN end ELSE begin)]

\* Envelope::Envelope(orig, t0, t1), lines 196-203: the fields before CopyRange
CopyFields(orig, t0, t1) ==
    [NewEnvelope(orig.mMinValue, orig.mMaxValue, orig.mDefaultValue) EXCEPT
        !.mDefaultValue = orig.mDefaultValue,
        !.mOffset = RMax(t0, orig.mOffset),
        !.mTrackLen = RSub(RMin(t1, RAdd(orig.mOffset, orig.mTrackLen)),
                           RMax(t0, orig.mOffset))]

\* Envelope::Envelope(orig, t0, t1)
CopyOf(orig, t0, t1) ==
    CopyRange(CopyFields(orig, t0, t1), orig,
              EqualRange(orig.mEnv, RSub(t0, orig.mOffset), Zero).first,
              EqualRange(orig.mEnv, RSub(t1, orig.mOffset), Zero).second)

(***************************************************************************)
(* Bounds of the model.                                                    *)
(***************************************************************************)
MaxPoints == 3      \* points kept in mEnv
MaxLen == 2         \* lengths and times passed in, in model time units
MaxDen == 1         \* denominator of a stored time or value
MaxPasted == 2      \* points of a pasted envelope

Times == {R(k) : k \in -1..(MaxLen + 1)}
Lengths == {R(k) : k \in 0..MaxLen}
MinValue == R(0)
MaxValue == R(2)
Values == {R(0), R(3)}

Bounded(e) ==
    /\ Len(e.mEnv) <= MaxPoints
    /\ RLe(e.mTrackLen, R(MaxLen + 1))
    /\ e.mTrackLen[2] <= MaxDen
    /\ \A k \in 1..Len(e.mEnv) :
          /\ e.mEnv[k].t[2] <= MaxDen
          /\ e.mEnv[k].val[2] <= MaxDen
          /\ \/ e.mEnv[k].t = big
             \/ RLe(R(-1), e.mEnv[k].t) /\ RLe(e.mEnv[k].t, R(MaxLen + 1))

\* last, when the call is not recorded
NoCall == [op |-> "none", args |-> <<>>, ret |-> -1]

Init ==
    LET e == NewEnvelope(MinValue, MaxValue, R(1))
    IN  /\ mEnv = e.mEnv
        /\ mTrackLen = e.mTrackLen
        /\ mOffset = e.mOffset
        /\ mDefaultValue = e.mDefaultValue
        /\ mMinValue = e.mMinValue
        /\ mMaxValue = e.mMaxValue
        /\ mDragPoint = e.mDragPoint
        /\ mDragPointValid = e.mDragPointValid
        /\ mSearchGuess = e.mSearchGuess
        /\ ub = FALSE
        /\ last = NoCall
        /\ mButton = wxMOUSE_BTN_NONE

\* a call returns, leaving the object as e; rec: last keeps the arguments
Returns(e, op, args, ret, rec) ==
    /\ ~ub
    /\ Bounded(e)
    /\ mEnv' = e.mEnv
    /\ mTrackLen' = e.mTrackLen
    /\ mOffset' = e.mOffset
    /\ mDefaultValue' = e.mDefaultValue
    /\ mMinValue' = e.mMinValue
    /\ mMaxValue' = e.mMaxValue
    /\ mDragPoint' = e.mDragPoint
    /\ mDragPointValid' = e.mDragPointValid
    /\ mSearchGuess' = e.mSearchGuess
    /\ ub' = FALSE
    /\ last' = IF rec THEN [op |-> op, args |-> args, ret |-> ret] ELSE NoCall
    /\ mButton' = mButton

\* a call uses an index past the end of mEnv: what the array holds afterwards
\* is whatever the build does with it (nothing, garbage written or removed)
Undefined(op) ==
    /\ ~ub
    /\ ub' = TRUE
    /\ mEnv' \in {mEnv, <<>>, Append(mEnv, EnvPoint(big, big))}
    /\ mDragPoint' \in {mDragPoint, -1}
    /\ last' = NoCall
    /\ UNCHANGED <<mTrackLen, mOffset, mDefaultValue, mMinValue, mMaxValue,
                   mDragPointValid, mSearchGuess, mButton>>

(***************************************************************************)
(* Actions: one per public operation, its inputs drawn from the given sets.*)
(***************************************************************************)
InsertOrReplaceReturns(r, t, v, rec) ==
    Returns([Self EXCEPT !.mEnv = r.env], "InsertOrReplace", <<t, v>>, r.ret, rec)

InsertOrReplace(T, V, rec) ==
    \E t \in T, v \in V :
        InsertOrReplaceReturns(InsertOrReplaceRelative(Self, t, v), t, v, rec)

DeletePoint(rec) ==
    \E i \in 0..(Len(mEnv) - 1) :
        Returns([Self EXCEPT !.mEnv = Delete(mEnv, i)], "Delete", <<i>>, -1, rec)

DoFlatten(V, rec) ==
    \E v \in V : Returns(Flatten(Self, v), "Flatten", <<v>>, -1, rec)

BeginDrag(rec) ==
    \E i \in -1..MaxPoints :
        Returns(SetDragPoint(Self, i), "BeginDrag", <<i>>, -1, rec)

Invalidate(rec) ==
    IF DragPointInRange(Self)
    THEN Returns(SetDragPointValid(Self, FALSE), "Invalidate", <<>>, -1, rec)
    ELSE Undefined("Invalidate")

DoMoveDragPoint(T, V, rec) ==
    \E t \in T, v \in V :
        IF DragPointInRange(Self)
        THEN Returns(MoveDragPoint(Self, t, v), "MoveDragPoint", <<t, v>>, -1, rec)
        ELSE Undefined("MoveDragPoint")

\* last.args of EndDrag: the drag point and its validity when the call was made
EndDrag(rec) ==
    IF DragPointInRange(Self)
    THEN Returns(ClearDragPoint(Self), "EndDrag",
                 <<mDragPoint, mDragPointValid>>, -1, rec)
    ELSE Undefined("EndDrag")

DoSetTrackLen(L, rec) ==
    \E len \in L :
        Returns(SetTrackLen(Self, len), "SetTrackLen", <<len>>, -1, rec)

DoRescaleTimes(L, rec) ==
    \E len \in L :
        Returns(RescaleTimes(Self, len), "RescaleTimes", <<len>>, -1, rec)

\* erasing [begin, end) with begin > end is undefined
CollapseRegionReturns(r, args, rec) ==
    IF r.begin <= r.end
    THEN Returns(CollapseRegionErase(r), "CollapseRegion", args, -1, rec)
    ELSE Undefined("CollapseRegion")

\* last.args of CollapseRegion: the arguments, then the points and the track
\* length when the call was made
DoCollapseRegion(T, S, rec) ==
    \E t0 \in T, t1 \in T, sampleTime \in S :
        /\ RLe(t0, t1)
        /\ CollapseRegionReturns(CollapseRegionRange(Self, t0, t1, sampleTime),
                                 <<t0, t1, sampleTime, mEnv, mTrackLen>>, rec)

DoInsertSpace(T, L, rec) ==
    \E t0 \in T, tlen \in L :
        Returns(InsertSpace(Self, t0, tlen), "InsertSpace", <<t0, tlen>>, -1, rec)

\* Paste returns, leaving the object as e.  The guard points of Paste are at
\* half units and the array grows by up to six points, so the result is not
\* held to Bounded: the specifications bound the envelope pasted into.
PasteReturns(e, args, rec) ==
    /\ ~ub
    /\ mEnv' = e.mEnv
    /\ mTrackLen' = e.mTrackLen
    /\ mOffset' = e.mOffset
    /\ mDefaultValue' = e.mDefaultValue
    /\ mMinValue' = e.mMinValue
    /\ mMaxValue' = e.mMaxValue
    /\ mDragPoint' = e.mDragPoint
    /\ mDragPointValid' = e.mDragPointValid
    /\ mSearchGuess' = e.mSearchGuess
    /\ ub' = FALSE
    /\ last' = IF rec THEN [op |-> "Paste", args |-> args, ret |-> -1] ELSE NoCall
    /\ mButton' = mButton

DoPaste(T, E, rec) ==
    \E t0 \in T, o \in E : PasteReturns(Paste(Self, t0, o), <<t0, o>>, rec)

\* last.args of RemoveUnneededPoints: the arguments, then the points when the
\* call was made; reading or deleting mEnv[i] past the end is undefined
DoRemoveUnneededPoints(T, Tol, rec) ==
    \E time \in T, tolerence \in Tol :
        IF RemoveInRange(Self, time, tolerence, 0, Len(mEnv))
        THEN Returns(RemoveUnneededPoints(Self, time, tolerence), "RemoveUnneededPoints",
                     <<time, tolerence, mEnv>>, -1, rec)
        ELSE Undefined("RemoveUnneededPoints")

ReassignReturns(r, when, value, rec) ==
    Returns([Self EXCEPT !.mEnv = r.env], "Reassign", <<when, value>>, r.ret, rec)

DoReassign(T, V, rec) ==
    \E when \in T, value \in V :
        ReassignReturns(Reassign(Self, when, value), when, value, rec)

\* Envelope::Envelope(orig, t0, t1) with orig the envelope of the state: the
\* copy takes its place
DoCopy(T, rec) ==
    \E t0 \in T, t1 \in T :
        Returns(CopyOf(Self, t0, t1), "Copy", <<t0, t1>>, -1, rec)

\* Envelope::Integral returns r.v and leaves the search hint r.guess; last.ret
\* keeps the value and the depth of the recursion
IntegralReturns(r, args, rec) ==
    Returns([Self EXCEPT !.mSearchGuess = r.guess], "Integral", args, <<r.v, r.flips>>, rec)

DoIntegral(T, rec) ==
    \E t0 \in T, t1 \in T : IntegralReturns(Integral(Self, t0, t1), <<t0, t1>>, rec)

\* Envelope::IntegralOfInverse returns r.v and leaves the search hint r.guess
IntegralOfInverseReturns(r, args, rec) ==
    Returns([Self EXCEPT !.mSearchGuess = r.guess], "IntegralOfInverse", args, r.v, rec)

DoIntegralOfInverse(T, rec) ==
    \E t0 \in T, t1 \in T :
        IntegralOfInverseReturns(IntegralOfInverse(Self, t0, t1), <<t0, t1>>, rec)

\* Envelope::SolveIntegralOfInverse returns r.v and leaves the search hint
\* r.guess
SolveIntegralOfInverseReturns(r, args, rec) ==
    Returns([Self EXCEPT !.mSearchGuess = r.guess], "SolveIntegralOfInverse", args,
            r.v, rec)

DoSolveIntegralOfInverse(T, A, rec) ==
    \E t0 \in T, area \in A :
        SolveIntegralOfInverseReturns(SolveIntegralOfInverse(Self, t0, area),
                                      <<t0, area>>, rec)

\* an event handler of the editor returns ret, leaving the envelope as e and
\* mButton as button
EditorReturns(e, button, op, args, ret, rec) ==
    /\ ~ub
    /\ Bounded(e)
    /\ mEnv' = e.mEnv
    /\ mTrackLen' = e.mTrackLen
    /\ mOffset' = e.mOffset
    /\ mDefaultValue' = e.mDefaultValue
    /\ mMinValue' = e.mMinValue
    /\ mMaxValue' = e.mMaxValue
    /\ mDragPoint' = e.mDragPoint
    /\ mDragPointValid' = e.mDragPointValid
    /\ mSearchGuess' = e.mSearchGuess
    /\ ub' = FALSE
    /\ mButton' = button
    /\ last' = IF rec THEN [op |-> op, args |-> args, ret |-> ret] ELSE NoCall

\* HandleDragging returns r.ret
DraggingReturns(r, button, rec) ==
    EditorReturns(r.e, mButton, "Dragging", <<button>>, r.ret, rec)

\* EnvelopeEditor::MouseEvent with a button down event
MouseButtonDown(B, T, V, rec) ==
    \E button \in B, bestNum \in -1..(Len(mEnv) - 1), when \in T, newVal \in V :
        IF MouseEvent("ButtonDown", button, mButton, mDragPoint) = "HandleMouseButtonDown"
        THEN EditorReturns(HandleMouseButtonDown(Self, bestNum, when, newVal), button,
                           "ButtonDown", <<button>>, TRUE, rec)
        ELSE EditorReturns(Self, mButton, "ButtonDown", <<button>>, FALSE, rec)

\* EnvelopeEditor::MouseEvent with a dragging event
MouseDragging(B, T, V, rec) ==
    \E button \in B, inside \in BOOLEAN, when \in T, newVal \in V :
        IF MouseEvent("Dragging", button, mButton, mDragPoint) = "HandleDragging"
        THEN IF DragPointInRange(Self)
             THEN DraggingReturns(HandleDragging(Self, inside, when, newVal), button, rec)
             ELSE Undefined("Dragging")
        ELSE EditorReturns(Self, mButton, "Dragging", <<button>>, FALSE, rec)

\* EnvelopeEditor::MouseEvent with a button up event; HandleMouseButtonUp,
\* lines 576-581
MouseButtonUp(B, rec) ==
    \E button \in B :
        IF MouseEvent("ButtonUp", button, mButton, mDragPoint) = "HandleMouseButtonUp"
        THEN IF DragPointInRange(Self)
             THEN EditorReturns(ClearDragPoint(Self), wxMOUSE_BTN_NONE, "ButtonUp",
                                <<button>>, TRUE, rec)
             ELSE Undefined("ButtonUp")
        ELSE EditorReturns(Self, mButton, "ButtonUp", <<button>>, FALSE, rec)

DoSetOffset(O, rec) ==
    \E newOffset \in O :
        Returns(SetOffset(Self, newOffset), "SetOffset", <<newOffset>>, -1, rec)

\* a const query returns g.v and leaves the search hint g.guess
QueryReturns(g, op, args, rec) ==
    Returns([Self EXCEPT !.mSearchGuess = g.guess], op, args, g.v, rec)

DoGetValue(T, rec) ==
    \E t \in T : QueryReturns(GetValue(Self, t), "GetValue", <<t>>, rec)

\* last.args of BinarySearchForTime: t and the search hint when the call was made
BracketReturns(s, args, rec) ==
    Returns([Self EXCEPT !.mSearchGuess = s.guess], "BinarySearchForTime", args,
            <<s.Lo, s.Hi>>, rec)

DoBinarySearchForTime(T, rec) ==
    \E t \in T :
        BracketReturns(BinarySearchForTime(mEnv, mSearchGuess, t),
                       <<t, mSearchGuess>>, rec)

DoNumberOfPointsAfter(T, rec) ==
    \E t \in T :
        QueryReturns(NumberOfPointsAfter(Self, t), "NumberOfPointsAfter", <<t>>, rec)

DoNextPointAfter(T, rec) ==
    \E t \in T :
        QueryReturns(NextPointAfter(Self, t), "NextPointAfter", <<t>>, rec)

\* a buffer query returns the buffer r.buffer and leaves the search hint r.guess
BufferReturns(r, op, args, rec) ==
    Returns([Self EXCEPT !.mSearchGuess = r.guess], op, args, r.buffer, rec)

DoGetValues(N, T, S, rec) ==
    \E bufferLen \in N, t0 \in T, tstep \in S :
        BufferReturns(GetValues(Self, bufferLen, t0, tstep), "GetValues",
                      <<bufferLen, t0, tstep>>, rec)

SampleTimes == {<<1, 2>>, R(2)}

\* The public mutators outside a drag gesture.
Next ==
    \/ InsertOrReplace(Times, Values, FALSE)
    \/ DeletePoint(FALSE)
    \/ DoFlatten({R(3)}, FALSE)
    \/ DoSetTrackLen(Lengths, FALSE)
    \/ DoRescaleTimes(Lengths, FALSE)
    \/ DoCollapseRegion(Lengths, SampleTimes, FALSE)
    \/ DoInsertSpace(Lengths, {R(1)}, FALSE)

Spec == Init /\ [][Next]_vars

\* Point editing: the calls are recorded in last.
NextEdit ==
    \/ InsertOrReplace(Times, Values, TRUE)
    \/ DoSetTrackLen(Lengths, FALSE)
    \/ DeletePoint(TRUE)

SpecEdit == Init /\ [][NextEdit]_vars

\* The drag gesture on an envelope of length MaxLen.
\* Point arrays as edits and region operations leave them: the times ascend
\* within [0, MaxLen], two points (never three) may share a time, the values
\* are in range.
QueryPoints == {EnvPoint(t, v) : t \in Lengths, v \in {MinValue, MaxValue}}

QueryEnvelopes ==
    {env \in UNION {[1..n -> QueryPoints] : n \in 0..MaxPoints} :
        /\ \A k \in 1..(Len(env) - 1) : RLe(env[k].t, env[k + 1].t)
        /\ \A k \in 1..(Len(env) - 2) : RLt(env[k].t, env[k + 2].t)}

\* The search hint is whatever earlier queries left, also an index that edits
\* made since have put past the end of the array.
InitQuery ==
    LET e == NewEnvelope(MinValue, MaxValue, R(1))
    IN  /\ mEnv \in QueryEnvelopes
        /\ mTrackLen = R(MaxLen)
        /\ mOffset = e.mOffset
        /\ mDefaultValue = e.mDefaultValue
        /\ mMinValue = e.mMinValue
        /\ mMaxValue = e.mMaxValue
        /\ mDragPoint = e.mDragPoint
        /\ mDragPointValid = e.mDragPointValid
        /\ mSearchGuess \in -2..MaxPoints
        /\ ub = FALSE
        /\ last = NoCall
        /\ mButton = wxMOUSE_BTN_NONE

QueryTimes == {RNorm(k, 2) : k \in -1..(2 * MaxLen + 1)}

\* Point queries: the queries are recorded in last.
NextQuery ==
    \/ DoSetOffset({R(0), R(1)}, FALSE)
    \/ DoGetValue(QueryTimes, TRUE)
    \/ DoBinarySearchForTime(QueryTimes, TRUE)
    \/ DoNumberOfPointsAfter(QueryTimes, TRUE)
    \/ DoNextPointAfter(QueryTimes, TRUE)

SpecQuery == InitQuery /\ [][NextQuery]_vars

\* Buffer queries.
MaxSamples == 3     \* bufferLen of GetValues

Steps == {R(-1), <<1, 2>>, R(1)}

NextSample ==
    \/ DoSetOffset({R(0), R(1)}, FALSE)
    \/ DoGetValues(1..MaxSamples, QueryTimes, Steps, TRUE)

SpecSample == InitQuery /\ [][NextSample]_vars

\* Region operations on a track of length MaxLen: the calls are recorded in
\* last.
InitRegion ==
    LET e == NewEnvelope(MinValue, MaxValue, R(1))
    IN  /\ mEnv \in QueryEnvelopes
        /\ mTrackLen = R(MaxLen)
        /\ mOffset = e.mOffset
        /\ mDefaultValue = e.mDefaultValue
        /\ mMinValue = e.mMinValue
        /\ mMaxValue = e.mMaxValue
        /\ mDragPoint = e.mDragPoint
        /\ mDragPointValid = e.mDragPointValid
        /\ mSearchGuess = e.mSearchGuess
        /\ ub = FALSE
        /\ last = NoCall
        /\ mButton = wxMOUSE_BTN_NONE

Widths == {R(k) : k \in 1..MaxLen}

NextRegion ==
    \/ DoCollapseRegion(Lengths, {R(1)}, TRUE)
    \/ DoInsertSpace(Times, Widths, TRUE)
    \/ DoSetTrackLen(Lengths, TRUE)

SpecRegion == InitRegion /\ [][NextRegion]_vars

\* The envelopes pasted: a span of 1 to MaxLen, up to MaxPasted points at
\* strictly ascending times within the span; the default value, which is read
\* only of an envelope without points, is then the target's or another.
PastedEnvelopes ==
    {o \in {[NewEnvelope(MinValue, MaxValue, d) EXCEPT
                !.mEnv = env, !.mTrackLen = len, !.mOffset = off] :
              d \in {R(0), R(1)}, off \in {R(0), R(1)}, len \in Widths,
              env \in UNION {[1..n -> QueryPoints] : n \in 0..MaxPasted}} :
        /\ \A k \in 1..(Len(o.mEnv) - 1) : RLt(o.mEnv[k].t, o.mEnv[k + 1].t)
        /\ \A k \in 1..Len(o.mEnv) : RLe(o.mEnv[k].t, o.mTrackLen)
        /\ Len(o.mEnv) > 0 => o.mDefaultValue = R(1)}

\* Paste into an envelope without points, new or of length MaxLen, or into
\* one on a track of length MaxLen: the calls are recorded in last.
InitPaste ==
    LET e == NewEnvelope(MinValue, MaxValue, R(1))
    IN  /\ mEnv \in QueryEnvelopes
        /\ mTrackLen \in {Zero, R(MaxLen)}
        /\ mTrackLen = Zero => mEnv = <<>>
        /\ mOffset = e.mOffset
        /\ mDefaultValue = e.mDefaultValue
        /\ mMinValue = e.mMinValue
        /\ mMaxValue = e.mMaxValue
        /\ mDragPoint = e.mDragPoint
        /\ mDragPointValid = e.mDragPointValid
        /\ mSearchGuess = e.mSearchGuess
        /\ ub = FALSE
        /\ last = NoCall
        /\ mButton = wxMOUSE_BTN_NONE

\* The envelopes pasted next to an earlier paste: flat, of length 1.
FlatEnvelopes ==
    {[NewEnvelope(MinValue, MaxValue, R(1)) EXCEPT
         !.mEnv = <<EnvPoint(R(0), v), EnvPoint(R(1), v)>>, !.mTrackLen = R(1)] :
       v \in {MinValue, MaxValue}}

\* Any envelope is pasted into one within the bounds on a track of up to
\* MaxLen; a flat one also into the result, on a track of up to MaxLen + 1.
NextPaste ==
    \/ /\ Bounded(Self)
       /\ RLe(mTrackLen, R(MaxLen))
       /\ DoPaste(Times, PastedEnvelopes, TRUE)
    \/ /\ RLe(mTrackLen, R(MaxLen + 1))
       /\ DoPaste(Times, FlatEnvelopes, TRUE)

SpecPaste == InitPaste /\ [][NextPaste]_vars

\* Point arrays with a value in between: the times ascend within [0, MaxLen],
\* two points (never three) may share a time.
MidPoints == {EnvPoint(t, v) : t \in Lengths, v \in {MinValue, R(1), MaxValue}}

MidEnvelopes ==
    {env \in UNION {[1..n -> MidPoints] : n \in 0..MaxPoints} :
        /\ \A k \in 1..(Len(env) - 1) : RLe(env[k].t, env[k + 1].t)
        /\ \A k \in 1..(Len(env) - 2) : RLt(env[k].t, env[k + 2].t)}

\* Operations on single points of a track of length MaxLen, with either
\* default value: the calls are recorded in last.
InitPoints ==
    LET e == NewEnvelope(MinValue, MaxValue, R(1))
    IN  /\ mEnv \in MidEnvelopes
        /\ mTrackLen = R(MaxLen)
        /\ mOffset = e.mOffset
        /\ mDefaultValue \in {R(0), R(1)}
        /\ mMinValue = e.mMinValue
        /\ mMaxValue = e.mMaxValue
        /\ mDragPoint = e.mDragPoint
        /\ mDragPointValid = e.mDragPointValid
        /\ mSearchGuess = e.mSearchGuess
        /\ ub = FALSE
        /\ last = NoCall
        /\ mButton = wxMOUSE_BTN_NONE

Tolerances == {R(0), R(1)}

NextPoints ==
    \/ DoSetOffset({R(0), R(1)}, FALSE)
    \/ DoRemoveUnneededPoints({R(-1), R(0), R(NearTime + MaxLen + 1)}, Tolerances, TRUE)
    \/ DoReassign(QueryTimes, Values \cup {R(1)}, TRUE)

SpecPoints == InitPoints /\ [][NextPoints]_vars

\* Copies of a range of an envelope on a track of length MaxLen, at either
\* offset, and copies of the copies: the calls are recorded in last.
InitCopy ==
    LET e == NewEnvelope(MinValue, MaxValue, R(1))
    IN  /\ mEnv \in QueryEnvelopes
        /\ mTrackLen = R(MaxLen)
        /\ mOffset \in {R(0), R(1)}
        /\ mDefaultValue = e.mDefaultValue
        /\ mMinValue = e.mMinValue
        /\ mMaxValue = e.mMaxValue
        /\ mDragPoint = e.mDragPoint
        /\ mDragPointValid = e.mDragPointValid
        /\ mSearchGuess = e.mSearchGuess
        /\ ub = FALSE
        /\ last = NoCall
        /\ mButton = wxMOUSE_BTN_NONE

NextCopy == DoCopy(Times, TRUE)

SpecCopy == InitCopy /\ [][NextCopy]_vars

\* Integrals between times in half units, over the envelopes and hints of
\* InitQuery, at either offset: the calls are recorded in last.
NextIntegral ==
    \/ DoSetOffset({R(0), R(1)}, FALSE)
    \/ DoIntegral(QueryTimes, TRUE)

SpecIntegral == InitQuery /\ [][NextIntegral]_vars

\* Envelopes whose curve is constant at a positive value: no points and that
\* default value, or up to MaxPoints points all holding it.
FlatValues == {R(1), R(2)}

ConstantEnvelopes ==
    {env \in UNION {[1..n -> {EnvPoint(t, v) : t \in Lengths, v \in FlatValues}] :
                       n \in 0..MaxPoints} :
        /\ \A k \in 1..(Len(env) - 1) : RLe(env[k].t, env[k + 1].t)
        /\ \A k \in 1..(Len(env) - 2) : RLt(env[k].t, env[k + 2].t)
        /\ \A k \in 1..Len(env) : env[k].val = env[1].val}

\* The search hint is the one of a new envelope or one that edits have put
\* outside the array.
InitInverse ==
    LET e == NewEnvelope(MinValue, MaxValue, R(1))
    IN  /\ mEnv \in ConstantEnvelopes
        /\ mTrackLen = R(MaxLen)
        /\ mOffset = e.mOffset
        /\ mDefaultValue \in FlatValues
        /\ mEnv # <<>> => mDefaultValue = e.mDefaultValue
        /\ mMinValue = e.mMinValue
        /\ mMaxValue = e.mMaxValue
        /\ mDragPoint = e.mDragPoint
        /\ mDragPointValid = e.mDragPointValid
        /\ mSearchGuess \in {-2, 0, MaxPoints}
        /\ ub = FALSE
        /\ last = NoCall
        /\ mButton = wxMOUSE_BTN_NONE

\* areas of either sign in half units, up to the whole range of QueryTimes
\* under the curve at 1
Areas == {RNorm(k, 2) : k \in (-2 * (MaxLen + 1))..(2 * (MaxLen + 1))}

NextInverse ==
    \/ DoSetOffset({R(0), R(1)}, FALSE)
    \/ DoIntegralOfInverse(Times, TRUE)
    \/ DoSolveIntegralOfInverse(QueryTimes, Areas, TRUE)

SpecInverse == InitInverse /\ [][NextInverse]_vars

\* Envelopes as a sequence of in-range edits leaves them: mTrackLen is MaxLen,
\* the times are strictly ascending in [0, mTrackLen], the values are in range.
GesturePoints == {EnvPoint(t, v) : t \in Lengths, v \in {MinValue, MaxValue}}

GestureEnvelopes ==
    {env \in UNION {[1..n -> GesturePoints] : n \in 0..MaxPoints} :
        \A k \in 1..(Len(env) - 1) : RLt(env[k].t, env[k + 1].t)}

InitGesture ==
    LET e == NewEnvelope(MinValue, MaxValue, R(1))
    IN  /\ mEnv \in GestureEnvelopes
        /\ mTrackLen = R(MaxLen)
        /\ mOffset = e.mOffset
        /\ mDefaultValue = e.mDefaultValue
        /\ mMinValue = e.mMinValue
        /\ mMaxValue = e.mMaxValue
        /\ mDragPoint = e.mDragPoint
        /\ mDragPointValid = e.mDragPointValid
        /\ mSearchGuess = e.mSearchGuess
        /\ ub = FALSE
        /\ last = NoCall
        /\ mButton = wxMOUSE_BTN_NONE

\* The drag gesture: the calls are recorded in last.
NextGesture ==
    \/ BeginDrag(TRUE)
    \/ Invalidate(TRUE)
    \/ DoMoveDragPoint(Times, Values, TRUE)
    \/ EndDrag(TRUE)

SpecGesture == InitGesture /\ [][NextGesture]_vars

\* The mouse events of the editor on an envelope of length MaxLen: the events
\* are recorded in last.
NextEditor ==
    \/ MouseButtonDown(Buttons, Lengths, Values, TRUE)
    \/ MouseDragging(Buttons, Times, Values, TRUE)
    \/ MouseButtonUp(Buttons, TRUE)

SpecEditor == InitGesture /\ [][NextEditor]_vars

\* The drag gesture interleaved with the other mutators.
NextDrag ==
    \/ BeginDrag(FALSE)
    \/ Invalidate(FALSE)
    \/ DoMoveDragPoint(Lengths, {R(1)}, FALSE)
    \/ EndDrag(FALSE)
    \/ DoFlatten({R(1)}, FALSE)
    \/ DeletePoint(FALSE)
    \/ DoSetTrackLen(Lengths, FALSE)
    \/ DoCollapseRegion(Lengths, {R(1)}, FALSE)
    \/ DoRemoveUnneededPoints({R(-1)}, {R(0)}, FALSE)

SpecDrag == InitGesture /\ [][NextDrag]_vars

(***************************************************************************)
(* Properties.                                                             *)
(***************************************************************************)
Ascending(env) == \A k \in 1..(Len(env) - 1) : RLt(env[k].t, env[k + 1].t)

InSpan(t, trackLen) == RLe(Zero, t) /\ RLe(t, trackLen)

ClampT(t, trackLen) == RMax(Zero, RMin(trackLen, t))

PointsAt(env, t) == {k \in 1..Len(env) : env[k].t = t}

\* env2 is env with point i (from 0) removed
Removed(env, env2, i) ==
    /\ Len(env2) = Len(env) - 1
    /\ \A k \in 1..Len(env2) : env2[k] = IF k <= i THEN env[k] ELSE env[k + 1]

\* C1: after every public operation has returned, the point times are strictly
\* ascending: no two points share a time.
C1StrictlyAscending == ~ub => Ascending(mEnv)

\* C2: after every public operation, every stored value lies in
\* [mMinValue, mMaxValue].
C2ValuesInRange ==
    ~ub => \A k \in 1..Len(mEnv) :
               RLe(mMinValue, mEnv[k].val) /\ RLe(mEnv[k].val, mMaxValue)

\* C3: while no drag is in progress every point time lies in [0, mTrackLen].
C3TimesInSpan ==
    (~ub /\ mDragPoint = -1) =>
        \A k \in 1..Len(mEnv) : InSpan(mEnv[k].t, mTrackLen)

\* what InsertOrReplace(t, v) returning i made of env, stored being the value
\* an overwritten point holds afterwards
InsertedOrReplaced(env, env2, t, v, stored, i) ==
    IF PointsAt(env, t) # {}
    THEN /\ Len(env2) = Len(env)
         /\ i + 1 \in PointsAt(env, t)
         /\ env2[i + 1] = EnvPoint(t, stored)
         /\ \A k \in 1..Len(env) : k # i + 1 => env2[k] = env[k]
    ELSE /\ Len(env2) = Len(env) + 1
         /\ i \in 0..Len(env)
         /\ env2[i + 1] = EnvPoint(t, v)
         /\ \A k \in 1..Len(env) :
               IF k <= i
               THEN env2[k] = env[k] /\ RLt(env[k].t, t)
               ELSE env2[k + 1] = env[k] /\ RLt(t, env[k].t)

\* C4 (as amended): InsertOrReplace(t, v) with t in [0, mTrackLen]: if a point
\* at time t exists, the count is unchanged, the first such point holds v
\* clamped to the value range and its index is returned; otherwise one point
\* (t, v) is added at its sorted position, its index is returned, and every
\* other point keeps its time and value.
C4InsertOrReplace ==
    [][(last'.op = "InsertOrReplace" /\ InSpan(last'.args[1], mTrackLen)) =>
          InsertedOrReplaced(mEnv, mEnv', last'.args[1], last'.args[2],
                             ClampValue(Self, last'.args[2]), last'.ret)]_vars

\* an out-of-range value has overwritten a point and is held clamped
C4Witness ==
    /\ last.op = "InsertOrReplace"
    /\ InSpan(last.args[1], mTrackLen)
    /\ RLt(mMaxValue, last.args[2])
    /\ Len(mEnv) >= 2
    /\ mEnv[last.ret + 1] = EnvPoint(last.args[1], mMaxValue)

\* C4 as stated: the overwritten point's value becomes v itself.
C4AsStated ==
    [][(last'.op = "InsertOrReplace" /\ InSpan(last'.args[1], mTrackLen)) =>
          InsertedOrReplaced(mEnv, mEnv', last'.args[1], last'.args[2],
                             last'.args[2], last'.ret)]_vars

\* C5: InsertOrReplace(t, v) with t outside [0, mTrackLen] writes v at t clamped
\* into [0, mTrackLen] and returns the index of that point.
C5ClampsTime ==
    [][(last'.op = "InsertOrReplace" /\ ~InSpan(last'.args[1], mTrackLen)) =>
          /\ last'.ret + 1 \in PointsAt(mEnv', ClampT(last'.args[1], mTrackLen))
          /\ mEnv'[last'.ret + 1].val \in
                {last'.args[2], ClampValue(Self, last'.args[2])}]_vars

\* C6: InsertOrReplace(t, v1) followed by InsertOrReplace(t, v2) leaves exactly
\* one point at t (as given or clamped into the span), holding v2 (as given or
\* clamped into the value range), and the count of the first call.
C6Idempotent ==
    [][(/\ last.op = "InsertOrReplace"
        /\ last'.op = "InsertOrReplace"
        /\ last'.args[1] = last.args[1]) =>
          /\ Len(mEnv') = Len(mEnv)
          /\ \E t \in {last'.args[1], ClampT(last'.args[1], mTrackLen)} :
                /\ Cardinality(PointsAt(mEnv', t)) = 1
                /\ \A k \in PointsAt(mEnv', t) :
                      mEnv'[k].val \in
                          {last'.args[2], ClampValue(Self, last'.args[2])}]_vars

\* C7: MoveDragPoint on a valid drag index leaves the dragged point strictly
\* after its left neighbour and strictly before its right neighbour (within
\* [0, mTrackLen] where it has none), holding the new value clamped.
C7MoveStrictlyBetween ==
    [][(last'.op = "MoveDragPoint" /\ mDragPoint >= 0) =>
          /\ IF mDragPoint > 0
             THEN RLt(mEnv'[mDragPoint].t, mEnv'[mDragPoint + 1].t)
             ELSE RLe(Zero, mEnv'[mDragPoint + 1].t)
          /\ IF mDragPoint + 1 < Len(mEnv)
             THEN RLt(mEnv'[mDragPoint + 1].t, mEnv'[mDragPoint + 2].t)
             ELSE RLe(mEnv'[mDragPoint + 1].t, mTrackLen)
          /\ mEnv'[mDragPoint + 1].val = ClampValue(Self, last'.args[2])]_vars

\* C8: BeginDrag(i) on a valid index leaves mDragPoint = i and the drag valid;
\* EndDrag leaves no drag point and the drag not valid; EndDrag removes exactly
\* the drag point when the drag was not valid, and otherwise leaves the points
\* as they were.
C8DragLifecycle ==
    [][/\ (last'.op = "BeginDrag" /\ last'.args[1] \in 0..(Len(mEnv) - 1)) =>
              /\ mDragPoint' = last'.args[1]
              /\ mDragPointValid'
              /\ mEnv' = mEnv
       /\ last'.op = "EndDrag" =>
              /\ mDragPoint' = -1
              /\ ~mDragPointValid'
              /\ IF ~mDragPointValid /\ mDragPoint >= 0
                 THEN Removed(mEnv, mEnv', mDragPoint)
                 ELSE mEnv' = mEnv]_vars

\* EndDrag has returned from a drag that was not valid
C8Witness ==
    /\ last.op = "EndDrag"
    /\ last.args[1] >= 0
    /\ ~last.args[2]
    /\ Len(mEnv) >= 1
    /\ mDragPoint = -1

\* C9: Invalidate on the last of two or more points moves it to the sentinel
\* time, gives it the value of the point before it, and leaves the drag not
\* valid.
C9InvalidateLast ==
    [][(/\ last'.op = "Invalidate"
        /\ Len(mEnv) >= 2
        /\ mDragPoint + 1 = Len(mEnv)) =>
          /\ mEnv'[Len(mEnv)].t = big
          /\ mEnv'[Len(mEnv)].val = mEnv[Len(mEnv) - 1].val
          /\ ~mDragPointValid']_vars

\* C10: once EndDrag has returned, every point time lies in [0, mTrackLen]: no
\* point is left at the sentinel time.
C10NoSentinelAfterEndDrag ==
    [][last'.op = "EndDrag" =>
          \A k \in 1..Len(mEnv') : InSpan(mEnv'[k].t, mTrackLen')]_vars

\* C11: Delete(index) with a valid index removes exactly that point: one point
\* fewer, every other point as it was and in the same order; the value range,
\* the default value, the offset and the track length are unchanged.
C11DeleteFrame ==
    [][last'.op = "Delete" =>
          /\ Removed(mEnv, mEnv', last'.args[1])
          /\ UNCHANGED <<mMinValue, mMaxValue, mDefaultValue, mOffset,
                         mTrackLen>>]_vars

\* Delete has removed a point that was not the last of the array
C11Witness ==
    /\ last.op = "Delete"
    /\ last.args[1] < Len(mEnv)
    /\ Len(mEnv) >= 1

\* C12: GetValue(t) is the default value when there are no points, the first
\* point's value for t at or before the first point's time, and the last
\* point's value for t at or after the last point's time.
C12GetValueEnds ==
    last.op = "GetValue" =>
        LET t == RSub(last.args[1], mOffset)
        IN  /\ Len(mEnv) = 0 => last.ret = mDefaultValue
            /\ (Len(mEnv) > 0 /\ RLe(t, mEnv[1].t)) => last.ret = mEnv[1].val
            /\ (Len(mEnv) > 0 /\ RLe(mEnv[Len(mEnv)].t, t)) =>
                   last.ret = mEnv[Len(mEnv)].val

\* C13: BinarySearchForTime(t) returns (lo, hi) with hi = lo + 1, the points up
\* to index lo being exactly those whose time is <= t, whatever the search
\* hint was, also one outside the array.
C13BracketWhateverHint ==
    last.op = "BinarySearchForTime" =>
        /\ last.ret[2] = last.ret[1] + 1
        /\ last.ret[1] \in -1..(Len(mEnv) - 1)
        /\ \A k \in 1..Len(mEnv) :
              (k - 1 <= last.ret[1]) <=> RLe(mEnv[k].t, last.args[1])

\* a search inside the array has been made with a hint past its end
C13Witness ==
    /\ last.op = "BinarySearchForTime"
    /\ Len(mEnv) >= 2
    /\ last.args[2] >= Len(mEnv)
    /\ last.ret[1] >= 0
    /\ last.ret[2] < Len(mEnv)

\* C15: NumberOfPointsAfter(t) is the number of points whose time is > t;
\* NextPointAfter(t) is the smallest point time > t, or t when there is none.
C15PointsAfter ==
    /\ last.op = "NumberOfPointsAfter" =>
          last.ret = Cardinality({k \in 1..Len(mEnv) : RLt(last.args[1], mEnv[k].t)})
    /\ last.op = "NextPointAfter" =>
          IF \E k \in 1..Len(mEnv) : RLt(last.args[1], mEnv[k].t)
          THEN /\ \E k \in 1..Len(mEnv) : mEnv[k].t = last.ret
               /\ RLt(last.args[1], last.ret)
               /\ \A k \in 1..Len(mEnv) :
                     RLt(last.args[1], mEnv[k].t) => RLe(last.ret, mEnv[k].t)
          ELSE last.ret = last.args[1]

\* some points, not all, are after t
C15Witness ==
    /\ last.op = "NumberOfPointsAfter"
    /\ last.ret >= 1
    /\ last.ret < Len(mEnv)

\* C14: GetValues writes into sample k what GetValue returns at t0 + k * tstep,
\* for every count, start and step.
C14GetValuesAsGetValue ==
    last.op = "GetValues" =>
        \A k \in 1..last.args[1] :
            last.ret[k] =
                GetValue(Self, RAdd(last.args[2], RMul(R(k - 1), last.args[3]))).v

\* what CollapseRegion over (t0, t1) made of the sorted array env: the points
\* at or before t0 are as they were, the points at or after t1 are earlier by
\* t1 - t0 with their values, and nothing else is left but boundary points at t0
Collapsed(env, env2, t0, t1) ==
    LET nLe == Cardinality({k \in 1..Len(env) : RLe(env[k].t, t0)})
        nGe == Cardinality({k \in 1..Len(env) : RLe(t1, env[k].t)})
    IN  /\ Len(env2) >= nLe + nGe
        /\ \A k \in 1..nLe : env2[k] = env[k]
        /\ \A j \in 0..(nGe - 1) :
              env2[Len(env2) - j] =
                  EnvPoint(RSub(env[Len(env) - j].t, RSub(t1, t0)),
                           env[Len(env) - j].val)
        /\ \A k \in (nLe + 1)..(Len(env2) - nGe) : env2[k].t = t0

\* C16: CollapseRegion(t0, t1) with 0 <= t0 < t1 <= mTrackLen removes every point
\* strictly inside (t0, t1), moves every point at or after t1 left by t1 - t0
\* with its value, leaves every point at or before t0 untouched and shortens
\* the track by t1 - t0.
C16CollapseRegion ==
    [][(/\ last'.op = "CollapseRegion"
        /\ RLt(last'.args[1], last'.args[2])
        /\ InSpan(RSub(last'.args[1], mOffset), mTrackLen)
        /\ InSpan(RSub(last'.args[2], mOffset), mTrackLen)) =>
          /\ mTrackLen' = RSub(mTrackLen, RSub(last'.args[2], last'.args[1]))
          /\ Collapsed(mEnv, mEnv', RSub(last'.args[1], mOffset),
                       RSub(last'.args[2], mOffset))]_vars

\* C17: CollapseRegion(t0, t1) followed by InsertSpace(t0, t1 - t0) restores the
\* track length, and at the time of every point that was at or before t0 or at
\* or after t1 the curve has that point's value.
C17CollapseThenInsertSpace ==
    [][(/\ last.op = "CollapseRegion"
        /\ last'.op = "InsertSpace"
        /\ RLt(last.args[1], last.args[2])
        /\ InSpan(RSub(last.args[1], mOffset), last.args[5])
        /\ InSpan(RSub(last.args[2], mOffset), last.args[5])
        /\ last'.args = <<last.args[1], RSub(last.args[2], last.args[1])>>) =>
          /\ mTrackLen' = last.args[5]
          /\ \A k \in 1..Len(last.args[4]) :
                (\/ RLe(last.args[4][k].t, RSub(last.args[1], mOffset))
                 \/ RLe(RSub(last.args[2], mOffset), last.args[4][k].t)) =>
                    GetValueRelative(Self', last.args[4][k].t).v =
                        last.args[4][k].val]_vars

\* the curve of e has the value v at t0, at t0 + len and at the times between
FlatOver(e, t0, len, v) ==
    \A k \in 0..(2 * (MaxLen + 1)) :
        RLe(RNorm(k, 2), len) => GetValueRelative(e, RAdd(t0, RNorm(k, 2))).v = v

\* the points of env after t0 are the last points of env2, later by len
ShiftedAfter(env, env2, t0, len) ==
    LET nGt == Cardinality({k \in 1..Len(env) : RLt(t0, env[k].t)})
    IN  /\ Len(env2) >= nGt
        /\ \A j \in 0..(nGt - 1) :
              env2[Len(env2) - j] =
                  EnvPoint(RAdd(env[Len(env) - j].t, len), env[Len(env) - j].val)

\* C18: InsertSpace(t0, length) lengthens the track by length, moves every point
\* after t0 right by length, and leaves the curve flat from t0 to t0 + length
\* at the value it had at t0 before the call.
C18InsertSpace ==
    [][last'.op = "InsertSpace" =>
          /\ mTrackLen' = RAdd(mTrackLen, last'.args[2])
          /\ ShiftedAfter(mEnv, mEnv', RSub(last'.args[1], mOffset), last'.args[2])
          /\ FlatOver(Self', RSub(last'.args[1], mOffset), last'.args[2],
                      GetValueRelative(Self, RSub(last'.args[1], mOffset)).v)]_vars

\* every point of env after t0 is in env2 with the same value, later by len
MovedAfter(env, env2, t0, len) ==
    \A k \in 1..Len(env) :
        RLt(t0, env[k].t) =>
            \E j \in 1..Len(env2) : env2[j] = EnvPoint(RAdd(env[k].t, len), env[k].val)

\* C19: Paste(t0, e) lengthens the track by e's length in every case, and every
\* point that was after t0 ends at its old time plus e's length with its value.
C19PasteShifts ==
    [][last'.op = "Paste" =>
          /\ mTrackLen' = RAdd(mTrackLen, last'.args[2].mTrackLen)
          /\ MovedAfter(mEnv, mEnv', RSub(last'.args[1], mOffset),
                        last'.args[2].mTrackLen)]_vars

\* env has a point at time t with value v
HasPoint(env, t, v) == \E k \in 1..Len(env) : env[k] = EnvPoint(t, v)

\* the envelope e carries the curve of o from t0 on: a point at t0 with o's
\* value at its start, one at t0 + o.mTrackLen with o's value at its end, and
\* o's value at the times between
Carries(e, t0, o) ==
    /\ HasPoint(e.mEnv, t0, GetValueRelative(o, Zero).v)
    /\ HasPoint(e.mEnv, RAdd(t0, o.mTrackLen), GetValueRelative(o, o.mTrackLen).v)
    /\ \A k \in 0..(2 * MaxLen) :
          RLe(RNorm(k, 2), o.mTrackLen) =>
              GetValueRelative(e, RAdd(t0, RNorm(k, 2))).v =
                  GetValueRelative(o, RNorm(k, 2)).v

\* Paste( t0, o ) into e returns early: nothing to insert
Degenerate(e, o) ==
    Len(o.mEnv) = 0 /\ Len(e.mEnv) = 0 /\ o.mDefaultValue = e.mDefaultValue

\* C20: after a Paste(t0, e) that is not degenerate the envelope has a point at
\* t0 with e's value at its start, a point at t0 + e's length with e's value at
\* its end, and e's value at s at every t0 + s in between, also when the
\* envelope had no points.
C20PastedCurve ==
    [][(last'.op = "Paste" /\ ~Degenerate(Self, last'.args[2])) =>
          Carries(Self', RMin(RSub(last'.args[1], mOffset), mTrackLen),
                  last'.args[2])]_vars

\* C21: Paste of an envelope without points into one without points and with
\* the same default value only adds the pasted length to mTrackLen: no point is
\* made, and mOffset, mDefaultValue and the value range stay.
C21PasteDegenerate ==
    [][(last'.op = "Paste" /\ Degenerate(Self, last'.args[2])) =>
          /\ mTrackLen' = RAdd(mTrackLen, last'.args[2].mTrackLen)
          /\ mEnv' = <<>>
          /\ UNCHANGED <<mOffset, mDefaultValue, mMinValue, mMaxValue>>]_vars

\* an envelope without points, with an offset of its own, has been pasted into
\* one without points and with the same default value
C21Witness ==
    /\ last.op = "Paste"
    /\ mEnv = <<>>
    /\ last.args[2].mEnv = <<>>
    /\ last.args[2].mDefaultValue = mDefaultValue
    /\ last.args[2].mOffset # mOffset
    /\ RLt(Zero, mTrackLen)

\* C22: after RemoveUnneededPoints(time, tolerance) the curve at the time of
\* every point that was there before the call differs from that point's value
\* by at most tolerance, also when several neighbours go in one scan.
C22WithinTolerance ==
    [][last'.op = "RemoveUnneededPoints" =>
          \A k \in 1..Len(mEnv) :
              RLe(RAbs(RSub(GetValueRelative(Self', mEnv[k].t).v, mEnv[k].val)),
                  last'.args[2])]_vars

\* C23: Reassign(t, v) returns 0 and stores v, clamped to the range, in the
\* point at time t when there is one; otherwise it returns -1 and leaves the
\* points as they were.
C23Reassign ==
    [][last'.op = "Reassign" =>
          IF \E k \in 1..Len(mEnv) : mEnv[k].t = RSub(last'.args[1], mOffset)
          THEN /\ last'.ret = 0
               /\ \E k \in 1..Len(mEnv) :
                     /\ mEnv[k].t = RSub(last'.args[1], mOffset)
                     /\ mEnv' = [mEnv EXCEPT ![k].val = ClampValue(Self, last'.args[2])]
          ELSE /\ last'.ret = -1
               /\ mEnv' = mEnv]_vars

\* Reassign has found the point and stored a value that it had to clamp
C23Witness ==
    /\ last.op = "Reassign"
    /\ last.ret = 0
    /\ RLt(mMaxValue, last.args[2])
    /\ HasPoint(mEnv, RSub(last.args[1], mOffset), mMaxValue)
    /\ Len(mEnv) > 1

\* Reassign has found no point at a time between two points
C23WitnessNotFound ==
    /\ last.op = "Reassign"
    /\ last.ret = -1
    /\ \E k \in 1..(Len(mEnv) - 1) :
          /\ RLt(mEnv[k].t, RSub(last.args[1], mOffset))
          /\ RLt(RSub(last.args[1], mOffset), mEnv[k + 1].t)

\* the curves of e and e2 agree at every half unit before t
SameBefore(e, e2, t) ==
    \A k \in 0..(2 * (MaxLen + 1)) :
        RLt(RNorm(k, 2), t) =>
            GetValueRelative(e2, RNorm(k, 2)).v = GetValueRelative(e, RNorm(k, 2)).v

\* C24: SetTrackLen(newLength) with 0 <= newLength < mTrackLen leaves mTrackLen
\* at newLength, no point after newLength, the curve at newLength and at every
\* earlier time as it was, and adds a point at newLength only if there was none.
C24Shrink ==
    [][(/\ last'.op = "SetTrackLen"
        /\ RLe(Zero, last'.args[1])
        /\ RLt(last'.args[1], mTrackLen)) =>
          /\ mTrackLen' = last'.args[1]
          /\ \A k \in 1..Len(mEnv') : RLe(mEnv'[k].t, last'.args[1])
          /\ GetValueRelative(Self', last'.args[1]).v =
                 GetValueRelative(Self, last'.args[1]).v
          /\ SameBefore(Self, Self', last'.args[1])
          /\ Len(mEnv') =
                 Cardinality({k \in 1..Len(mEnv) : RLe(mEnv[k].t, last'.args[1])})
                 + (IF \E k \in 1..Len(mEnv) : mEnv[k].t = last'.args[1] THEN 0 ELSE 1)]_vars

\* env has a point at time t
HasPointAt(env, t) == \E k \in 1..Len(env) : env[k].t = t

\* the copy c of the range [lo, hi] (absolute times) of orig: the same values
\* over the range, a point at each end that is not on a point of orig, the
\* points inside with their values and their times on the new origin
CopiedRange(orig, c, lo, hi) ==
    /\ \A k \in (-2)..(2 * (MaxLen + 2)) :
          (RLe(lo, RNorm(k, 2)) /\ RLe(RNorm(k, 2), hi)) =>
              GetValue(c, RNorm(k, 2)).v = GetValue(orig, RNorm(k, 2)).v
    /\ ~HasPointAt(orig.mEnv, RSub(lo, orig.mOffset)) => HasPointAt(c.mEnv, Zero)
    /\ ~HasPointAt(orig.mEnv, RSub(hi, orig.mOffset)) => HasPointAt(c.mEnv, c.mTrackLen)
    /\ \A k \in 1..Len(orig.mEnv) :
          (/\ RLt(lo, RAdd(orig.mEnv[k].t, orig.mOffset))
           /\ RLt(RAdd(orig.mEnv[k].t, orig.mOffset), hi)) =>
              HasPoint(c.mEnv, RSub(RAdd(orig.mEnv[k].t, orig.mOffset), lo),
                       orig.mEnv[k].val)

\* C25: the copy Envelope(orig, t0, t1) has orig's value at every time of
\* [max(t0, offset), min(t1, offset + length)], a point at local time 0 and at
\* its length when the range does not start or end on a point of orig, and the
\* points inside with their values; a copy of the whole range has orig's points.
C25Copy ==
    [][(/\ last'.op = "Copy"
        /\ RLe(RMax(last'.args[1], mOffset),
               RMin(last'.args[2], RAdd(mOffset, mTrackLen)))) =>
          /\ CopiedRange(Self, Self', RMax(last'.args[1], mOffset),
                         RMin(last'.args[2], RAdd(mOffset, mTrackLen)))
          /\ (last'.args[1] = mOffset /\ last'.args[2] = RAdd(mOffset, mTrackLen)) =>
                 mEnv' = mEnv]_vars

\* C26: Integral(t0, t2) = Integral(t0, t1) + Integral(t1, t2) for t0 < t1 < t2,
\* wherever the three times fall among the points.
C26IntegralAdditive ==
    last.op = "Integral" =>
        \A t1 \in QueryTimes :
            (RLt(last.args[1], t1) /\ RLt(t1, last.args[2])) =>
                last.ret[1] = RAdd(Integral(Self, last.args[1], t1).v,
                                   Integral(Self, t1, last.args[2]).v)

\* an integral from before the first point to after the last has been taken
\* over three points, with times on a point and inside a segment in between
C26Witness ==
    /\ last.op = "Integral"
    /\ Len(mEnv) = 3
    /\ Ascending(mEnv)
    /\ mEnv[1].val # mEnv[2].val
    /\ RLt(RSub(last.args[1], mOffset), mEnv[1].t)
    /\ RLt(mEnv[3].t, RSub(last.args[2], mOffset))

\* the times where the curve may bend between t0 and t1: the ends and the
\* points in between (absolute times)
Breaks(e, t0, t1) ==
    {t0, t1} \cup {RAdd(e.mEnv[k].t, e.mOffset) : k \in
                      {j \in 1..Len(e.mEnv) :
                          /\ RLt(t0, RAdd(e.mEnv[j].t, e.mOffset))
                          /\ RLt(RAdd(e.mEnv[j].t, e.mOffset), t1)}}

\* the first of the times B after b
NextBreak(B, b) ==
    CHOOSE c \in B : RLt(b, c) /\ \A d \in B : RLt(b, d) => RLe(c, d)

\* the sum of the pieces starting at the times S: the curve is linear on each,
\* so its area is its width times the value GetValue gives in its middle
RECURSIVE AreaOver(_, _, _)
AreaOver(e, B, S) ==
    IF S = {} THEN Zero
    ELSE LET b == CHOOSE x \in S : TRUE
         IN  RAdd(RMul(RSub(NextBreak(B, b), b),
                       GetValue(e, RMul(RAdd(b, NextBreak(B, b)), RNorm(1, 2))).v),
                  AreaOver(e, B, S \ {b}))

\* the area under the curve that GetValue defines, from t0 to t1 >= t0
Area(e, t0, t1) == AreaOver(e, Breaks(e, t0, t1), Breaks(e, t0, t1) \ {t1})

\* C27: for t0 <= t1, Integral(t0, t1) is the area under the curve that GetValue
\* defines: (t1 - t0) times the default value without points, (t1 - t0) times
\* the end value before the first or after the last point, the trapezoids and
\* the constant extensions otherwise.
C27IntegralIsArea ==
    (last.op = "Integral" /\ RLe(last.args[1], last.args[2])) =>
        /\ last.ret[1] = Area(Self, last.args[1], last.args[2])
        /\ Len(mEnv) = 0 =>
              last.ret[1] = RMul(RSub(last.args[2], last.args[1]), mDefaultValue)
        /\ (Len(mEnv) > 0 /\ RLe(RSub(last.args[2], mOffset), mEnv[1].t)) =>
              last.ret[1] = RMul(RSub(last.args[2], last.args[1]), mEnv[1].val)
        /\ (Len(mEnv) > 0 /\ RLe(mEnv[Len(mEnv)].t, RSub(last.args[1], mOffset))) =>
              last.ret[1] = RMul(RSub(last.args[2], last.args[1]), mEnv[Len(mEnv)].val)

\* over the points (0, 0), (1, 2), (2, 0) the integral from 0 to a time after
\* the last point is 2, as it is from 0 to 2
C27Witness ==
    /\ last.op = "Integral"
    /\ mEnv = <<EnvPoint(R(0), R(0)), EnvPoint(R(1), R(2)), EnvPoint(R(2), R(0))>>
    /\ RSub(last.args[1], mOffset) = R(0)
    /\ RLt(R(2), RSub(last.args[2], mOffset))
    /\ last.ret[1] = R(2)

\* C28: Integral(t1, t0) = -Integral(t0, t1) for every envelope and pair of
\* times, Integral(t, t) = 0, and a call exchanges its arguments at most once.
C28IntegralAntisymmetric ==
    last.op = "Integral" =>
        /\ last.ret[1] = RSub(Zero, Integral(Self, last.args[2], last.args[1]).v)
        /\ last.args[1] = last.args[2] => last.ret[1] = Zero
        /\ last.ret[2] <= 1

\* an integral with t0 > t1 has been taken across a point and is not zero
C28Witness ==
    /\ last.op = "Integral"
    /\ RLt(last.args[2], last.args[1])
    /\ last.ret[2] = 1
    /\ last.ret[1] # Zero
    /\ \E k \in 1..Len(mEnv) :
          /\ RLt(RSub(last.args[2], mOffset), mEnv[k].t)
          /\ RLt(mEnv[k].t, RSub(last.args[1], mOffset))

\* C29: on a curve constant at a positive value (no points and that default, or
\* points all holding it), for every t0 before, between or after the points and
\* every area of either sign, IntegralOfInverse(t0, SolveIntegralOfInverse(t0, area))
\* = area, and SolveIntegralOfInverse(t0, 0) = t0.
C29SolveInverts ==
    last.op = "SolveIntegralOfInverse" =>
        /\ IntegralOfInverse(Self, last.args[1], last.ret).v = last.args[2]
        /\ last.args[2] = Zero => last.ret = last.args[1]

\* a negative area has been solved from after the last of several points back
\* to a time inside a segment
C29Witness ==
    /\ last.op = "SolveIntegralOfInverse"
    /\ Len(mEnv) >= 2
    /\ RLt(last.args[2], Zero)
    /\ RLt(mEnv[Len(mEnv)].t, RSub(last.args[1], mOffset))
    /\ RLt(mEnv[1].t, RSub(last.ret, mOffset))
    /\ RLt(RSub(last.ret, mOffset), mEnv[2].t)

\* Paste( t0, o ) into e is Case 2: e has points, the last of them at the end
\* of the track, which is not also its start, and t0 is at that end or after it
PasteCase2(e, t0) ==
    /\ Len(e.mEnv) > 0
    /\ e.mEnv[Len(e.mEnv)].t = e.mTrackLen
    /\ RLe(mTrackEpsilon, e.mTrackLen)
    /\ RLe(e.mTrackLen, RSub(t0, e.mOffset))

\* C30: a Paste at the end of an envelope whose last point is at the end of the
\* track moves that point left by mTrackEpsilon, leaves no two points at one
\* time, keeps every other point at its time, and keeps the curve at every time
\* more than mTrackEpsilon before the end.
C30PasteAtEnd ==
    [][(last'.op = "Paste" /\ PasteCase2(Self, last'.args[1]) /\ Ascending(mEnv)) =>
          /\ HasPoint(mEnv', RSub(mTrackLen, mTrackEpsilon), mEnv[Len(mEnv)].val)
          /\ \A j \in 1..Len(mEnv') : \A k \in 1..Len(mEnv') :
                j # k => mEnv'[j].t # mEnv'[k].t
          /\ \A k \in 1..(Len(mEnv) - 1) : HasPoint(mEnv', mEnv[k].t, mEnv[k].val)
          /\ \A t \in QueryTimes :
                RLt(t, RSub(mTrackLen, mTrackEpsilon)) =>
                    GetValueRelative(Self', t).v = GetValueRelative(Self, t).v]_vars

\* the range [begin, end) that CollapseRegion( t0, t1, 1 ) erases from e is
\* a range of the array
ErasesRange(e, t0, t1) ==
    /\ CollapseRegionRange(e, t0, t1, R(1)).begin <= CollapseRegionRange(e, t0, t1, R(1)).end
    /\ CollapseRegionRange(e, t0, t1, R(1)).end
           <= Len(CollapseRegionRange(e, t0, t1, R(1)).e.mEnv)

\* the curve of e at the times of QueryTimes is the one over the points env
SameCurve(e, env) ==
    \A t \in QueryTimes :
        GetValueRelative(e, t).v = GetValueRelative([e EXCEPT !.mEnv = env], t).v

\* C31: CollapseRegion never fails: for every t0 <= t1, also t0 = t1 on a point,
\* without points and on a track of length 0, the range erased has
\* begin <= end <= the number of points, and a collapse with t0 = t1 leaves the
\* curve and the track length as they were.
C31CollapseNoFail ==
    /\ ~ub
    /\ \A t0 \in Lengths : \A t1 \in Lengths :
          RLe(t0, t1) => ErasesRange(Self, t0, t1)
    /\ (last.op = "CollapseRegion" /\ last.args[1] = last.args[2]) =>
          /\ mTrackLen = last.args[5]
          /\ SameCurve(Self, last.args[4])

\* three points of env are at one time
ThreeAtOneTime(env) ==
    \E i \in 1..Len(env) : \E j \in (i + 1)..Len(env) : \E k \in (j + 1)..Len(env) :
        env[i].t = env[j].t /\ env[j].t = env[k].t

\* C32: at most two points share a time: when no drag is under way (the drag
\* point is -1, as EndDrag leaves it), no three points have equal times.
C32AtMostTwoAtOneTime == (~ub /\ mDragPoint = -1) => ~ThreeAtOneTime(mEnv)

\* the point i (from 0) of env is at a time within [0, len] and not before
\* its left or after its right neighbour
BetweenNeighbours(env, i, len) ==
    /\ RLe(Zero, GetT(env, i)) /\ RLe(GetT(env, i), len)
    /\ i > 0 => RLe(GetT(env, i - 1), GetT(env, i))
    /\ i + 1 < Len(env) => RLe(GetT(env, i), GetT(env, i + 1))

\* C33: in a gesture (the drag point is set) a MoveDragPoint that follows an
\* Invalidate makes the drag valid again,
\* brings the dragged point back between its neighbours within [0, mTrackLen]
\* and keeps the number of points; the EndDrag that follows it keeps the point.
C33MoveBackKeeps ==
    [][/\ (last.op = "Invalidate" /\ last'.op = "MoveDragPoint" /\ mDragPoint >= 0) =>
             /\ mDragPointValid'
             /\ mDragPoint' = mDragPoint
             /\ Len(mEnv') = Len(mEnv)
             /\ BetweenNeighbours(mEnv', mDragPoint, mTrackLen)
       /\ (last.op = "MoveDragPoint" /\ last'.op = "EndDrag" /\ mDragPoint >= 0) =>
             mEnv' = mEnv]_vars

RECURSIVE ScanInBounds(_, _, _, _, _)

\* the state s left by a pass that began with left = len - i is nearer the end
\* of the scan, has no more points than pts, and the scan from it stays in
\* bounds
PassInBounds(s, time, tolerence, left, pts) ==
    /\ s.len - s.i < left
    /\ s.i >= 0
    /\ Len(s.e.mEnv) <= pts
    /\ ScanInBounds(s.e, time, tolerence, s.i, s.len)

\* at every test of the loop of RemoveUnneededPoints from (e, i, len) on, len
\* is the number of points
ScanInBounds(e, time, tolerence, i, len) ==
    /\ len = Len(e.mEnv)
    /\ i < len => PassInBounds(RemoveStep(e, time, tolerence, i, len), time, tolerence,
                               len - i, Len(e.mEnv))

\* C34: RemoveUnneededPoints terminates (len - i falls with every pass), never
\* adds a point, and its bound len is the number of points at every test of the
\* loop, also after a pass in which putting the point back has merged it with
\* one at the same time: no index past the end is read or deleted.
C34ScanBound ==
    [][/\ ~ub'
       /\ last'.op = "RemoveUnneededPoints" =>
             /\ ScanInBounds(Self, last'.args[1], last'.args[2], 0, Len(mEnv))
             /\ Len(mEnv') <= Len(mEnv)]_vars

\* a scan over two points at one time with different values and tolerance 0
\* has put the first back onto the second: one of them is left, with the value
\* of the first
C34Witness ==
    /\ last.op = "RemoveUnneededPoints"
    /\ last.args[2] = Zero
    /\ Len(last.args[3]) = 2
    /\ last.args[3][1].t = last.args[3][2].t
    /\ last.args[3][1].val # last.args[3][2].val
    /\ mEnv = <<last.args[3][1]>>

\* the times of env do not decrease with the index
NonDecreasing(env) == \A k \in 1..(Len(env) - 1) : RLe(env[k].t, env[k + 1].t)

\* C35: after every sequence of calls the times of the points are
\* non-decreasing by index, also after a Paste that moves a point by
\* mTrackEpsilon.
C35TimesNonDecreasing == ~ub => NonDecreasing(mEnv)

\* C36: whenever mDragPoint is not -1 it is an index of the array, whatever
\* calls of Flatten, Delete, CollapseRegion, SetTrackLen and
\* RemoveUnneededPoints come between those of the gesture, so MoveDragPoint,
\* Invalidate and EndDrag use no point that is not there.
C36DragPointInArray ==
    ~ub => (mDragPoint # -1 => (0 <= mDragPoint /\ mDragPoint < Len(mEnv)))

\* C37: the editor binds a gesture to the button that began it: while a
\* button is recorded a button down makes no point and leaves the drag point;
\* a dragging event acts only while a drag point is set; only a button up of
\* the recorded button ends the gesture, and after it mDragPoint is -1,
\* mDragPointValid is false and no button is recorded.
C37GestureButton ==
    [][/\ (last'.op = "ButtonDown" /\ mButton # wxMOUSE_BTN_NONE) =>
             UNCHANGED <<mEnv, mDragPoint, mDragPointValid, mButton>>
       /\ (last'.op = "Dragging" /\ mDragPoint < 0) =>
             UNCHANGED <<mEnv, mDragPoint, mDragPointValid, mButton>>
       /\ (mButton # wxMOUSE_BTN_NONE /\ mButton' # mButton) =>
             (last'.op = "ButtonUp" /\ last'.args[1] = mButton)
       /\ (last'.op = "ButtonUp" /\ last'.args[1] = mButton) =>
             /\ mDragPoint' = -1
             /\ ~mDragPointValid'
             /\ mButton' = wxMOUSE_BTN_NONE
       /\ (last'.op = "ButtonUp" /\ last'.args[1] # mButton) =>
             UNCHANGED <<mEnv, mDragPoint, mDragPointValid, mButton>>]_vars

\* in a gesture begun with one button, with the dragged point invalidated, a
\* button down of the other button has been ignored
C37Witness ==
    /\ last.op = "ButtonDown"
    /\ last.ret = FALSE
    /\ mButton # wxMOUSE_BTN_NONE
    /\ last.args[1] # mButton
    /\ mDragPoint >= 0
    /\ ~mDragPointValid

=============================================================================
